---------------------------- MODULE Spec2Model ----------------------------
(***************************************************************************)
(* Model of velero-plugin-for-vsm: the backup item action that creates a   *)
(* VolumeSnapshotBackup (VSB) per VolumeSnapshotContent (VSC), the restore *)
(* item action that creates a VolumeSnapshotRestore (VSR) per persisted    *)
(* VSB, and the Progress calls that track those requests through an        *)
(* operationID of the form namespace/name.                                 *)
(*                                                                         *)
(* Strings that the code splits or concatenates (namespaces, object names, *)
(* operationIDs) are sequences of one-character strings, so that           *)
(* strings.Split and the "+" of Execute are computed, not assumed.         *)
(***************************************************************************)
EXTENDS Integers, Sequences, FiniteSets, TLC

\* ------------------------------------------------------------------ bounds
MaxHandleLen == 4        \* longest operationID handed to Progress
MaxSuffix == 2           \* number of distinct suffixes the store can generate
MaxInvocations == 2      \* Execute invocations begun in one run
MaxCallers == 2          \* pipeline workers that may run Execute concurrently

\* --------------------------------------------------------------- alphabet
Sep == "/"
HandleChars == {"n", "v", "1", Sep}
SuffixChars == <<"1", "2", "3", "4", "5">>
Suffixes == {<<SuffixChars[i]>> : i \in 1..MaxSuffix}

RECURSIVE SeqsUpTo(_, _)
SeqsUpTo(S, n) ==
    IF n = 0 THEN {<<>>}
    ELSE LET shorter == SeqsUpTo(S, n - 1)
         IN  shorter \cup {Append(s, x) : s \in {t \in shorter : Len(t) = n - 1}, x \in S}

Handles == SeqsUpTo(HandleChars, MaxHandleLen)

\* strings.Split(s, sep): the segments between separators; Split("") = [""]
RECURSIVE Split(_, _)
Split(s, sep) ==
    IF \E i \in 1..Len(s) : s[i] = sep
    THEN LET i == CHOOSE j \in 1..Len(s) : s[j] = sep /\ \A k \in 1..(j - 1) : s[k] # sep
         IN  <<SubSeq(s, 1, i - 1)>> \o Split(SubSeq(s, i + 1, Len(s)), sep)
    ELSE <<s>>

\* ------------------------------------------------------------ data model
Namespaces == {<<"n">>}
VSBGenerateName == <<"v">>          \* GenerateName: "vsb-"
VSRGenerateName == <<"v">>          \* GenerateName: "vsr-"
BackupNames == {"backup-1", "backup-2"}
RestoreNames == {"restore-1"}
VSCNames == {"pvc-a"}

\* datamoverv1alpha1 phases ("" = status not yet written)
PhaseCompleted == "Completed"
PhaseFailed == "Failed"
Phases == {"", "New", "InProgress", PhaseCompleted, PhaseFailed, "PartiallyFailed"}
BatchingStatuses == {"", "Processing"}

Statuses == [Phase : Phases, BatchingStatus : BatchingStatuses]
EmptyStatus == [Phase |-> "", BatchingStatus |-> ""]

NoKey == <<>>
Nil == "nil"

VARIABLE dataMoverCase   \* util.dataMoverCase, read once from the environment
VARIABLE vsbStore        \* VolumeSnapshotBackups in the cluster: key -> object
VARIABLE vsrStore        \* VolumeSnapshotRestores in the cluster: key -> object
VARIABLE callers         \* per pipeline worker: position and locals of backup Execute
VARIABLE invocations     \* number of Execute invocations begun
VARIABLE overlapped      \* TRUE once two Execute invocations were in flight together
VARIABLE lastProgress    \* the Progress call being answered: what it was given and returns
VARIABLE lastCancel      \* the last Cancel call: what it was given and returns
VARIABLE datamoverTimeout \* os.Getenv(DatamoverTimeout), "" when unset
VARIABLE wait            \* the wait.PollImmediate call in progress and its outcome
VARIABLE waited          \* the object a wait fetches, as the cluster holds it
VARIABLE bridge          \* the VSB item on its way through backup, persistence and restore
VARIABLE lastDelete      \* the delete item action calls made: what the last was given and returned
VARIABLE flow            \* the flow waiting for the VolumeSnapshotRestores of one restore
VARIABLE classStore      \* VolumeSnapshotClasses in the cluster: name -> object
VARIABLE classExecs      \* per worker: position and locals of the VSB backup item action

waitVars == <<datamoverTimeout, wait, waited>>
itemVars == <<bridge, lastDelete, flow>>
classVars == <<classStore, classExecs>>

vars == <<dataMoverCase, vsbStore, vsrStore, callers, invocations, overlapped,
          lastProgress, lastCancel, waitVars, itemVars, classVars>>

\* no Cancel call made yet
NoCancel == [variant |-> "none", operationID |-> <<>>, err |-> Nil]

\* no wait running, and no object being waited for; Others are the items that
\* follow the object in the list a List call returns
IdleWait == [kind |-> "none", pc |-> "idle", timeout |-> 0, elapsed |-> 0,
             polls |-> 0, fetches |-> 0, lastPollAt |-> 0, lastFault |-> "none",
             lastOutcome |-> "none", result |-> "none"]
NotWaited == [exists |-> FALSE, HasStatus |-> FALSE, Conditions |-> "", Data |-> "",
              Phase |-> "", SnapshotHandle |-> "", ReadyToUse |-> FALSE,
              Others |-> <<>>]

\* an object without an annotation map (ObjectMeta.Annotations == nil)
NoAnnotationMap == [k \in {} |-> ""]
NilMeta == [HasAnnotations |-> FALSE, Annotations |-> NoAnnotationMap]

\* the zero VolumeSnapshotBackupStatus, as far as the status bridge reads it
ZeroSnapshot == [ResticRepository |-> "",
                 SourcePVCData |-> [Name |-> "", Size |-> "", StorageClassName |-> ""],
                 VolumeSnapshotClassName |-> ""]

\* no VSB item handed to the backup item action yet
NoBridge == [pc |-> "none", variant |-> "none", item |-> NilMeta, snapshot |-> ZeroSnapshot,
             vsb |-> [meta |-> NilMeta, HasStatus |-> FALSE, Status |-> ZeroSnapshot],
             snapclass |-> FALSE, fault |-> "none", err |-> Nil,
             vsrKey |-> NoKey, operationID |-> <<>>, SkipRestore |-> FALSE,
             restores |-> 0, requests |-> {}, handles |-> {}]

\* no delete item action call made yet
NoDelete == [calls |-> 0, key |-> NoKey, backupLabel |-> "", backupName |-> "",
             fail |-> "none", existed |-> FALSE, err |-> Nil,
             priorKey |-> NoKey, priorBackupName |-> "", priorErr |-> Nil]

\* no flow waiting for the VolumeSnapshotRestores of a restore
NoFlow == [pc |-> "idle", restore |-> "", waits |-> <<>>, firstErr |-> Nil, result |-> "none"]

\* the workers that run the VSB backup item action, none of them in a call,
\* and a cluster without VolumeSnapshotClasses
MaxExecutors == 2
Executors == 1..MaxExecutors
IdleExec == [pc |-> "idle", backup |-> "", fail |-> "none", err |-> Nil,
             answer |-> Nil, raced |-> FALSE, additionalItems |-> {}]
NoClasses == [k \in {} |-> Nil]

\* Name: fmt.Sprintf("%s-snapclass", backup.Name), part_001:71
TempVSCName(backupName) == <<backupName, "-snapclass">>

\* the temporary VolumeSnapshotClass crafted by the action, part_001:69-79
TempVSC == [Labels |-> [WaitVolumeSnapshotBackup |-> "true"],
            Driver |-> "foo", DeletionPolicy |-> "Retain"]

\* client.Get against a store: the object, NotFound, or another store error
Get(store, key, fault) ==
    IF fault THEN [err |-> "StoreError", obj |-> Nil]
    ELSE IF key \in DOMAIN store THEN [err |-> Nil, obj |-> store[key]]
    ELSE [err |-> "NotFound", obj |-> Nil]

\* ------------------------------------------------------- objects and store
\* a velero Backup as Execute reads it: Name, Namespace, Spec.StorageLocation
Backup(name) == [Name |-> name, Namespace |-> "velero", StorageLocation |-> "bsl"]
Backups == {Backup(n) : n \in BackupNames}

\* a VolumeSnapshotContent item: its name, its velero.io/backup-name label
\* ("" when the label is missing) and Spec.VolumeSnapshotRef.Namespace
VSCs == [Name : VSCNames, BackupLabel : BackupNames \cup {""}, RefNamespace : Namespaces]

\* the VolumeSnapshotBackup crafted by Execute, part_002:113-131
NewVSB(snapCont, backup, resticSecretName) ==
    [Labels |-> [backup |-> backup.Name, vsc |-> snapCont.Name],
     Spec   |-> [VolumeSnapshotContent |-> snapCont.Name,
                 ProtectedNamespace |-> backup.Namespace,
                 ResticSecretRef |-> resticSecretName],
     Status |-> EmptyStatus]

\* fmt.Sprintf("%v-volsync-restic", bslName), part_004:690-691
ResticSecretName(backup) == <<backup.StorageLocation, "-volsync-restic">>

\* annotation keys written by the VSB backup action and read on restore
VolumeSnapshotMoverResticRepository == "ResticRepository"
VolumeSnapshotMoverSourcePVCName == "SourcePVCName"
VolumeSnapshotMoverSourcePVCSize == "SourcePVCSize"
VolumeSnapshotMoverSourcePVCStorageClass == "SourcePVCStorageClass"
VolumeSnapshotMoverVolumeSnapshotClass == "VolumeSnapshotClassName"

\* vsb.Annotations[key]: a Go map read, "" when the key (or the map) is absent
Annotation(annotations, key) ==
    IF key \in DOMAIN annotations THEN annotations[key] ELSE ""

\* the VolumeSnapshotRestore crafted by restore Execute, part_004:54-78
NewVSR(vsb, restoreName) ==
    [Labels |-> [restore |-> restoreName,
                 pvc |-> Annotation(vsb.Annotations, VolumeSnapshotMoverSourcePVCName)],
     Spec   |-> [ResticSecretRef |-> vsb.Spec.ResticSecretRef,
                 PVCName |-> Annotation(vsb.Annotations, VolumeSnapshotMoverSourcePVCName),
                 PVCSize |-> Annotation(vsb.Annotations, VolumeSnapshotMoverSourcePVCSize),
                 PVCStorageClassName |-> Annotation(vsb.Annotations, VolumeSnapshotMoverSourcePVCStorageClass),
                 ResticRepository |-> Annotation(vsb.Annotations, VolumeSnapshotMoverResticRepository),
                 VolumeSnapshotClassName |-> Annotation(vsb.Annotations, VolumeSnapshotMoverVolumeSnapshotClass),
                 ProtectedNamespace |-> vsb.Spec.ProtectedNamespace],
     Status |-> EmptyStatus]

\* store with object obj added (or replaced) under key
Put(store, key, obj) ==
    [k \in DOMAIN store \cup {key} |-> IF k = key THEN obj ELSE store[k]]

EmptyStore == [k \in {} |-> Nil]

\* operationID with the name before the namespace
OperationID_NameFirst(key) == key[2] \o <<Sep>> \o key[1]

\* operationID = vsb.Namespace + "/" + vsb.Name, part_002:153 and part_004:103
OperationID(key) == key[1] \o <<Sep>> \o key[2]

\* ------------------------------------------------------------- Progress
\* velero.OperationProgress plus the error returned with it.  kind is the
\* error class ("ok" = nil error); cause is the store error that was wrapped;
\* clients and fetches count the client constructions and store reads the
\* call performed; fetched is the status the call read (Nil if none).
ProgressResult(kind, cause, description, completed, errMsg, clients, fetches, fetched) ==
    [kind |-> kind, cause |-> cause, Description |-> description,
     Completed |-> completed, Err |-> errMsg,
     clients |-> clients, fetches |-> fetches, fetched |-> fetched]

NoStatus == [Phase |-> Nil, BatchingStatus |-> Nil]

\* progress := velero.OperationProgress{} returned with an error (or a panic)
ZeroProgress(kind, cause, clients, fetches) ==
    ProgressResult(kind, cause, <<>>, FALSE, "", clients, fetches, NoStatus)

\* part_002:198-213, progress from the status of the fetched VSB
BackupProgressFromStatus(st) ==
    IF st.Phase # "" /\ st.BatchingStatus # ""
    THEN ProgressResult("ok", Nil,
             <<"Phase: ", st.Phase, " BatchingStatus: ", st.BatchingStatus>>,
             st.Phase = PhaseCompleted \/ st.Phase = PhaseFailed,
             IF st.Phase = PhaseFailed THEN "VolumeSnapshotBackup has a failed status" ELSE "",
             1, 1, st)
    ELSE ProgressResult("ok", Nil, <<>>, FALSE, "", 1, 1, st)

\* backup Progress that fetches the VSB a second time while it is not terminal
BackupProgress_Refetch(operationID, store, clientOK, getFault) ==
    IF operationID = <<>> THEN ZeroProgress("InvalidOperationID", Nil, 0, 0)
    ELSE IF ~clientOK THEN ZeroProgress("ClientError", Nil, 1, 0)
    ELSE LET splitOperationID == Split(operationID, Sep)
         IN  IF Len(splitOperationID) # 2
             THEN ZeroProgress("InvalidOperationID", Nil, 1, 0)
             ELSE LET got == Get(store, <<splitOperationID[1], splitOperationID[2]>>, getFault)
                  IN  IF got.err # Nil
                      THEN ZeroProgress("FetchError", got.err, 1, 1)
                      ELSE LET r == BackupProgressFromStatus(got.obj.Status)
                           IN  IF r.Completed THEN r ELSE [r EXCEPT !.fetches = 2]

\* VolumeSnapshotContentBackupItemActionV2.Progress, part_002:170-224
VolumeSnapshotContentBackupItemActionV2_Progress(operationID, store, clientOK, getFault) ==
    IF operationID = <<>> THEN ZeroProgress("InvalidOperationID", Nil, 0, 0)
    ELSE IF ~clientOK THEN ZeroProgress("ClientError", Nil, 1, 0)
    ELSE LET splitOperationID == Split(operationID, Sep)
         IN  IF Len(splitOperationID) # 2
             THEN ZeroProgress("InvalidOperationID", Nil, 1, 0)
             ELSE LET got == Get(store, <<splitOperationID[1], splitOperationID[2]>>, getFault)
                  IN  IF got.err # Nil
                      THEN ZeroProgress("FetchError", got.err, 1, 1)
                      ELSE BackupProgressFromStatus(got.obj.Status)

\* part_002:427-437, the earlier variant's progress from the fetched status
BackupProgressFromStatus_2(st) ==
    IF st.Phase # ""
    THEN ProgressResult("ok", Nil, <<st.Phase>>,
             st.Phase = PhaseCompleted,
             IF st.Phase = PhaseFailed THEN "VolumeSnapshotBackup has a failed status" ELSE "",
             1, 1, st)
    ELSE ProgressResult("ok", Nil, <<>>, FALSE, "", 1, 1, st)

\* earlier backup Progress that answers a failed fetch with a zero-value
\* progress record and a nil error
BackupProgress_2_FetchErrorDropped(operationID, store, clientOK, getFault) ==
    IF operationID = <<>> THEN ZeroProgress("InvalidOperationID", Nil, 0, 0)
    ELSE IF ~clientOK THEN ZeroProgress("ClientError", Nil, 1, 0)
    ELSE LET splitOperationID == Split(operationID, Sep)
         IN  IF Len(splitOperationID) < 2
             THEN ZeroProgress("panic", Nil, 1, 0)
             ELSE LET got == Get(store, <<splitOperationID[1], splitOperationID[2]>>, getFault)
                  IN  IF got.err # Nil
                      THEN ZeroProgress("ok", Nil, 1, 1)
                      ELSE BackupProgressFromStatus_2(got.obj.Status)

\* VolumeSnapshotContentBackupItemActionV2.Progress, earlier variant,
\* part_002:401-450: no length check before indexing the split
VolumeSnapshotContentBackupItemActionV2_Progress_2(operationID, store, clientOK, getFault) ==
    IF operationID = <<>> THEN ZeroProgress("InvalidOperationID", Nil, 0, 0)
    ELSE IF ~clientOK THEN ZeroProgress("ClientError", Nil, 1, 0)
    ELSE LET splitOperationID == Split(operationID, Sep)
         IN  IF Len(splitOperationID) < 2
             THEN ZeroProgress("panic", Nil, 1, 0)     \* index out of range [1]
             ELSE LET got == Get(store, <<splitOperationID[1], splitOperationID[2]>>, getFault)
                  IN  IF got.err # Nil
                      THEN ZeroProgress("FetchError", got.err, 1, 1)
                      ELSE BackupProgressFromStatus_2(got.obj.Status)

\* part_004:141-158, progress from the status of the fetched VSR
RestoreProgressFromStatus(st) ==
    IF st.Phase # "" /\ st.BatchingStatus # ""
    THEN ProgressResult("ok", Nil,
             <<"Phase: ", st.Phase, " BatchingStatus: ", st.BatchingStatus>>,
             st.Phase = PhaseCompleted \/ st.Phase = PhaseFailed,
             IF st.Phase = PhaseFailed THEN "VolumeSnapshotRestore has a failed status" ELSE "",
             1, 1, st)
    ELSE ProgressResult("ok", Nil, <<>>, FALSE, "", 1, 1, st)

\* restore Progress with the client constructed before the emptiness check
RestoreProgress_ClientFirst(operationID, store, clientOK, getFault) ==
    IF ~clientOK THEN ZeroProgress("ClientError", Nil, 1, 0)
    ELSE LET splitOperationID == Split(operationID, Sep)
         IN  IF Len(splitOperationID) # 2
             THEN ZeroProgress("InvalidOperationID", Nil, 1, 0)
             ELSE LET got == Get(store, <<splitOperationID[1], splitOperationID[2]>>, getFault)
                  IN  IF got.err # Nil
                      THEN ZeroProgress("FetchError", got.err, 1, 1)
                      ELSE RestoreProgressFromStatus(got.obj.Status)

\* VolumeSnapshotBackupRestoreItemActionV2.Progress, part_004:113-169
VolumeSnapshotBackupRestoreItemActionV2_Progress(operationID, store, clientOK, getFault) ==
    IF operationID = <<>> THEN ZeroProgress("InvalidOperationID", Nil, 0, 0)
    ELSE IF ~clientOK THEN ZeroProgress("ClientError", Nil, 1, 0)
    ELSE LET splitOperationID == Split(operationID, Sep)
         IN  IF Len(splitOperationID) # 2
             THEN ZeroProgress("InvalidOperationID", Nil, 1, 0)
             ELSE LET got == Get(store, <<splitOperationID[1], splitOperationID[2]>>, getFault)
                  IN  IF got.err # Nil
                      THEN ZeroProgress("FetchError", got.err, 1, 1)
                      ELSE RestoreProgressFromStatus(got.obj.Status)

NoProgress == [variant |-> "none", operationID |-> <<>>,
               result |-> ZeroProgress("none", Nil, 0, 0)]

\* what fails in the environment during a Progress call
ProgressFaults == {"none", "client", "get"}

\* the host's scheduler takes the returned progress record; its next call follows
ProgressReturn ==
    /\ lastProgress # NoProgress
    /\ lastProgress' = NoProgress
    /\ UNCHANGED <<classVars, itemVars, lastCancel, waitVars, dataMoverCase, vsbStore, vsrStore, callers, invocations, overlapped>>

\* the host calls Progress of the backup action with some operationID
BackupProgress(operationID, fault) ==
    /\ lastProgress = NoProgress
    /\ lastProgress' = [variant |-> "backup", operationID |-> operationID,
                        result |-> VolumeSnapshotContentBackupItemActionV2_Progress(
                                       operationID, vsbStore, fault # "client", fault = "get")]
    /\ UNCHANGED <<classVars, itemVars, lastCancel, waitVars, dataMoverCase, vsbStore, vsrStore, callers, invocations, overlapped>>

\* the host calls Progress of the earlier backup action variant
BackupProgress_2(operationID, fault) ==
    /\ lastProgress = NoProgress
    /\ lastProgress' = [variant |-> "backup2", operationID |-> operationID,
                        result |-> VolumeSnapshotContentBackupItemActionV2_Progress_2(
                                       operationID, vsbStore, fault # "client", fault = "get")]
    /\ UNCHANGED <<classVars, itemVars, lastCancel, waitVars, dataMoverCase, vsbStore, vsrStore, callers, invocations, overlapped>>

\* the key Progress fetches for an operationID of two segments
ProgressResultKey(operationID) ==
    <<Split(operationID, Sep)[1], Split(operationID, Sep)[2]>>

\* restore Progress that removes the VSR once it has reported it completed
RestoreProgress_Cleanup(operationID, fault) ==
    /\ lastProgress = NoProgress
    /\ lastProgress' = [variant |-> "restore", operationID |-> operationID,
                        result |-> VolumeSnapshotBackupRestoreItemActionV2_Progress(
                                       operationID, vsrStore, fault # "client", fault = "get")]
    /\ vsrStore' = IF lastProgress'.result.Completed
                   THEN [k \in DOMAIN vsrStore \ {ProgressResultKey(operationID)} |-> vsrStore[k]]
                   ELSE vsrStore
    /\ UNCHANGED <<classVars, itemVars, lastCancel, waitVars, dataMoverCase, vsbStore, callers, invocations, overlapped>>

\* the host calls Progress of the restore action with some operationID
RestoreProgress(operationID, fault) ==
    /\ lastProgress = NoProgress
    /\ lastProgress' = [variant |-> "restore", operationID |-> operationID,
                        result |-> VolumeSnapshotBackupRestoreItemActionV2_Progress(
                                       operationID, vsrStore, fault # "client", fault = "get")]
    /\ UNCHANGED <<classVars, itemVars, lastCancel, waitVars, dataMoverCase, vsbStore, vsrStore, callers, invocations, overlapped>>

\* --------------------------------------------------------- backup Execute
\* the mode taken as on whatever the environment said
DataMoverCase_AlwaysOn == TRUE

\* util.DataMoverCase(), part_004:684-686
DataMoverCase == dataMoverCase

\* VSCBelongsToBackup that accepts every VolumeSnapshotContent
VSCBelongsToBackup_Always(backup, snapCont) == TRUE

\* util.VSCBelongsToBackup, part_004:793-804
VSCBelongsToBackup(backup, snapCont) ==
    IF snapCont.BackupLabel # backup.Name THEN FALSE ELSE TRUE

\* snapMoverClient.List with MatchingLabels{VolumeSnapshotBackupVolumeSnapshotContent: name}
ListVSBForVSC(store, vscName, fault) ==
    IF fault THEN [err |-> "StoreError", items |-> {}]
    ELSE [err |-> Nil, items |-> {k \in DOMAIN store : store[k].Labels.vsc = vscName}]

\* VSBExistsForVSC that reports a VSB whenever the list for the VSC is not empty
VSBExistsForVSC_AnyListed(snapCont, store, clientOK, listFault) ==
    IF ~clientOK THEN [exists |-> FALSE, err |-> "ClientError"]
    ELSE LET vsbList == ListVSBForVSC(store, snapCont.Name, listFault)
         IN  IF vsbList.err # Nil
             THEN [exists |-> FALSE, err |-> vsbList.err]
             ELSE [exists |-> vsbList.items # {}, err |-> Nil]

\* util.VSBExistsForVSC, part_004:583-605: true only when List fails with
\* AlreadyExists; a List that succeeds yields false whatever it returned
VSBExistsForVSC(snapCont, store, clientOK, listFault) ==
    IF ~clientOK THEN [exists |-> FALSE, err |-> "ClientError"]
    ELSE LET vsbList == ListVSBForVSC(store, snapCont.Name, listFault)
         IN  IF vsbList.err # Nil
             THEN IF vsbList.err = "AlreadyExists"
                  THEN [exists |-> TRUE, err |-> Nil]
                  ELSE [exists |-> FALSE, err |-> vsbList.err]
             ELSE [exists |-> FALSE, err |-> Nil]

\* what Execute returns: item, operationID, itemsToUpdate, error
ExecuteResult(item, operationID, itemsToUpdate, err, cause) ==
    [item |-> item, operationID |-> operationID, itemsToUpdate |-> itemsToUpdate,
     err |-> err, cause |-> cause]

ExecuteError(err, cause) == ExecuteResult("nil", <<>>, {}, err, cause)

NoResult == ExecuteResult("none", <<>>, {}, Nil, Nil)

\* the step of the environment that fails first, if Execute gets that far
ExecuteFailures == {"none", "convert", "clients", "wait", "cred", "moverClient", "list"}

\* Execute that goes on to create the VSB when the existence lookup fails
ExecuteUntilLookup_LookupErrorIgnored(snapCont, backup, store, fail) ==
    IF fail = "convert"
    THEN [next |-> "return", result |-> ExecuteError("ConvertError", Nil)]
    ELSE IF ~DataMoverCase
    THEN [next |-> "return", result |-> ExecuteResult("input", <<>>, {}, Nil, Nil)]
    ELSE IF ~VSCBelongsToBackup(backup, snapCont)
    THEN [next |-> "return", result |-> ExecuteResult("input", <<>>, {}, Nil, Nil)]
    ELSE IF fail = "clients"
    THEN [next |-> "return", result |-> ExecuteError("ClientError", Nil)]
    ELSE IF fail = "wait"
    THEN [next |-> "return", result |-> ExecuteError("WaitError", Nil)]
    ELSE IF fail = "cred"
    THEN [next |-> "return", result |-> ExecuteError("SecretError", Nil)]
    ELSE [next |-> "create", result |-> NoResult]

\* Execute from entry up to the existence lookup, part_002:58-110:
\* next = "create" when it goes on to create a VSB, else the call returns result
ExecuteUntilLookup(snapCont, backup, store, fail) ==
    IF fail = "convert"
    THEN [next |-> "return", result |-> ExecuteError("ConvertError", Nil)]
    ELSE IF ~DataMoverCase
    THEN [next |-> "return", result |-> ExecuteResult("input", <<>>, {}, Nil, Nil)]
    ELSE IF ~VSCBelongsToBackup(backup, snapCont)
    THEN [next |-> "return", result |-> ExecuteResult("input", <<>>, {}, Nil, Nil)]
    ELSE IF fail = "clients"
    THEN [next |-> "return", result |-> ExecuteError("ClientError", Nil)]
    ELSE IF fail = "wait"
    THEN [next |-> "return", result |-> ExecuteError("WaitError", Nil)]
    ELSE IF fail = "cred"
    THEN [next |-> "return", result |-> ExecuteError("SecretError", Nil)]
    ELSE LET VSBExists == VSBExistsForVSC(snapCont, store, fail # "moverClient", fail = "list")
         IN  IF VSBExists.err # Nil
             THEN [next |-> "return", result |-> ExecuteError("LookupError", VSBExists.err)]
             ELSE IF ~VSBExists.exists
             THEN [next |-> "create", result |-> NoResult]
             ELSE [next |-> "return", result |-> ExecuteResult("input", <<>>, {}, Nil, Nil)]

Callers == 1..MaxCallers

\* createAnswer is what the store answered to this invocation's Create, fail
\* the step of the environment that was set to fail for the invocation
NoVSC == [Name |-> "", BackupLabel |-> "", RefNamespace |-> <<>>]
NoBackup == [Name |-> "", Namespace |-> "", StorageLocation |-> ""]
IdleCaller == [pc |-> "idle", vsc |-> NoVSC, backup |-> NoBackup, key |-> NoKey,
               createAnswer |-> Nil, result |-> NoResult, fail |-> "none"]

InFlight(c) == callers[c].pc \in {"create", "readback"}

\* a pipeline worker enters Execute for an item and runs it up to the lookup
ExecuteBegin(c, snapCont, backup, fail) ==
    /\ callers[c].pc \in {"idle", "done"}
    /\ invocations < MaxInvocations
    /\ invocations' = invocations + 1
    /\ overlapped' = (overlapped \/ \E d \in Callers \ {c} : InFlight(d))
    /\ LET r == ExecuteUntilLookup(snapCont, backup, vsbStore, fail)
       IN  callers' = [callers EXCEPT ![c] =
               [pc |-> IF r.next = "create" THEN "create" ELSE "done",
                vsc |-> snapCont, backup |-> backup, key |-> NoKey,
                createAnswer |-> Nil, result |-> r.result, fail |-> fail]]
    /\ UNCHANGED <<classVars, itemVars, lastCancel, waitVars, dataMoverCase, vsbStore, vsrStore, lastProgress>>

\* vsbClient.Create with GenerateName, part_002:133-142: the store appends a
\* suffix of its choice and answers AlreadyExists when that name is taken
ExecuteCreate(c, clientOK, suffix, fault) ==
    /\ callers[c].pc = "create"
    /\ LET snapCont == callers[c].vsc
           backup == callers[c].backup
           key == <<snapCont.RefNamespace, VSBGenerateName \o suffix>>
           vsb == NewVSB(snapCont, backup, ResticSecretName(backup))
       IN  IF ~clientOK
           THEN /\ callers' = [callers EXCEPT ![c].pc = "done",
                                   ![c].result = ExecuteError("ClientError", Nil)]
                /\ UNCHANGED vsbStore
           ELSE IF fault
           THEN /\ callers' = [callers EXCEPT ![c].pc = "done",
                                   ![c].createAnswer = "StoreError",
                                   ![c].result = ExecuteError("CreateError", "StoreError")]
                /\ UNCHANGED vsbStore
           ELSE IF key \in DOMAIN vsbStore
           THEN /\ callers' = [callers EXCEPT ![c].pc = "done",
                                   ![c].createAnswer = "AlreadyExists",
                                   ![c].result = ExecuteError("CreateError", "AlreadyExists")]
                /\ UNCHANGED vsbStore
           ELSE /\ vsbStore' = Put(vsbStore, key, vsb)
                /\ callers' = [callers EXCEPT ![c].pc = "readback", ![c].key = key,
                                   ![c].createAnswer = "Created"]
    /\ UNCHANGED <<classVars, itemVars, lastCancel, waitVars, dataMoverCase, vsrStore, invocations, overlapped, lastProgress>>

\* a read-back that writes the fetched VSB back with the secret reference cleared
ExecuteReadBack_Update(c, fault) ==
    /\ callers[c].pc = "readback"
    /\ LET key == callers[c].key
           got == Get(vsbStore, key, fault)
       IN  /\ callers' = [callers EXCEPT ![c].pc = "done", ![c].result =
                   IF got.err # Nil
                   THEN ExecuteError("FetchError", got.err)
                   ELSE ExecuteResult("input", OperationID(key), {key}, Nil, Nil)]
           /\ vsbStore' = IF got.err # Nil THEN vsbStore
                          ELSE [vsbStore EXCEPT ![key].Spec.ResticSecretRef = <<>>]
    /\ UNCHANGED <<classVars, itemVars, lastCancel, waitVars, dataMoverCase, vsrStore, invocations, overlapped,
                   lastProgress>>

\* vsbClient.Get of the created VSB and the return, part_002:146-167
ExecuteReadBack(c, fault) ==
    /\ callers[c].pc = "readback"
    /\ LET key == callers[c].key
           got == Get(vsbStore, key, fault)
       IN  callers' = [callers EXCEPT ![c].pc = "done", ![c].result =
               IF got.err # Nil
               THEN ExecuteError("FetchError", got.err)
               ELSE ExecuteResult("input", OperationID(key), {key}, Nil, Nil)]
    /\ UNCHANGED <<classVars, itemVars, lastCancel, waitVars, dataMoverCase, vsbStore, vsrStore, invocations, overlapped,
                   lastProgress>>

\* ------------------------------------------------------- specifications
Init ==
    /\ dataMoverCase \in BOOLEAN
    /\ vsbStore = EmptyStore
    /\ vsrStore = EmptyStore
    /\ callers = [c \in Callers |-> IdleCaller]
    /\ invocations = 0
    /\ overlapped = FALSE
    /\ lastProgress = NoProgress
    /\ lastCancel = NoCancel
    /\ datamoverTimeout = ""
    /\ wait = IdleWait
    /\ waited = NotWaited
    /\ bridge = NoBridge
    /\ lastDelete = NoDelete
    /\ flow = NoFlow
    /\ classStore = NoClasses
    /\ classExecs = [e \in Executors |-> IdleExec]

Next ==
    \/ \E c \in Callers, snapCont \in VSCs, backup \in Backups, fail \in ExecuteFailures :
           ExecuteBegin(c, snapCont, backup, fail)
    \/ \E c \in Callers, clientOK \in BOOLEAN, suffix \in Suffixes, fault \in BOOLEAN :
           ExecuteCreate(c, clientOK, suffix, fault)
    \/ \E c \in Callers, fault \in BOOLEAN : ExecuteReadBack(c, fault)

Spec == Init /\ [][Next]_vars

\* ---------------------------------------------- Progress specification
\* the VSB and the VSR that Progress is asked about: the first object each
\* Execute creates in namespace n
ProgressNamespace == <<"n">>
ProgressVSBKey == <<ProgressNamespace, VSBGenerateName \o <<"1">>>>
ProgressVSRKey == <<ProgressNamespace, VSRGenerateName \o <<"1">>>>

ProgressVSC == [Name |-> "pvc-a", BackupLabel |-> "backup-1", RefNamespace |-> ProgressNamespace]
ProgressVSB == NewVSB(ProgressVSC, Backup("backup-1"), ResticSecretName(Backup("backup-1")))

\* the VSB as persisted by the backup: status stripped, status in annotations
PersistedVSB ==
    [Annotations |-> [a \in {VolumeSnapshotMoverResticRepository,
                             VolumeSnapshotMoverSourcePVCName,
                             VolumeSnapshotMoverSourcePVCSize,
                             VolumeSnapshotMoverSourcePVCStorageClass,
                             VolumeSnapshotMoverVolumeSnapshotClass} |-> <<a, "value">>],
     Spec |-> ProgressVSB.Spec]
ProgressVSR == NewVSR(PersistedVSB, "restore-1")

\* the external data mover writes the status of a VSB
WorkerSetVSBStatus(k, st) ==
    /\ k \in DOMAIN vsbStore
    /\ vsbStore[k].Status # st
    /\ vsbStore' = [vsbStore EXCEPT ![k].Status = st]
    /\ UNCHANGED <<classVars, itemVars, lastCancel, waitVars, dataMoverCase, vsrStore, callers, invocations, overlapped,
                   lastProgress>>

\* the external data mover writes the status of a VSR
WorkerSetVSRStatus(k, st) ==
    /\ k \in DOMAIN vsrStore
    /\ vsrStore[k].Status # st
    /\ vsrStore' = [vsrStore EXCEPT ![k].Status = st]
    /\ UNCHANGED <<classVars, itemVars, lastCancel, waitVars, dataMoverCase, vsbStore, callers, invocations, overlapped,
                   lastProgress>>

\* label.GetValidName: names of at most 63 characters are returned as they are
GetValidName(name) == name

\* backup names that strings.TrimSpace leaves empty
BlankNames == {"", " "}

\* strings.TrimSpace on the names of the model, none of which has white space
\* around other characters
TrimSpace(name) == IF name \in BlankNames THEN "" ELSE name

\* HasBackupLabel that accepts every labelled object
HasBackupLabel_Any(backupLabel, backupName) == backupLabel # ""

\* util.HasBackupLabel, part_004:458-463; backupLabel = "" when the object has
\* no labels or no velero.io/backup-name label
HasBackupLabel(backupLabel, backupName) ==
    IF backupLabel = "" \/ TrimSpace(backupName) = "" THEN FALSE
    ELSE backupLabel = GetValidName(backupName)

\* store without the object under key
Remove(store, key) == [k \in DOMAIN store \ {key} |-> store[k]]

\* client.Delete against a store: the store afterwards and the error
StoreDelete(store, key, fault) ==
    IF fault THEN [store |-> store, err |-> "StoreError"]
    ELSE IF key \in DOMAIN store THEN [store |-> Remove(store, key), err |-> Nil]
    ELSE [store |-> store, err |-> "NotFound"]

DeleteFailures == {"none", "convert", "client", "delete"}

\* the delete item action returning the NotFound of the store
DeleteItemAction_NotFoundIsError(store, key, backupLabel, backupName, fail) ==
    LET deleted == StoreDelete(store, key, fail = "delete")
    IN  IF fail = "convert" THEN [store |-> store, err |-> "ConvertError"]
        ELSE IF ~HasBackupLabel(backupLabel, backupName) THEN [store |-> store, err |-> Nil]
        ELSE IF fail = "client" THEN [store |-> store, err |-> "ClientError"]
        ELSE deleted

\* VolumeSnapshotBackupDeleteItemAction.Execute, part_002:489-517, for the
\* backed-up VSB item with this key and backup label, of the backup being
\* deleted: the store afterwards and the error returned
DeleteItemAction(store, key, backupLabel, backupName, fail) ==
    LET deleted == StoreDelete(store, key, fail = "delete")
    IN  IF fail = "convert" THEN [store |-> store, err |-> "ConvertError"]
        ELSE IF ~HasBackupLabel(backupLabel, backupName) THEN [store |-> store, err |-> Nil]
        ELSE IF fail = "client" THEN [store |-> store, err |-> "ClientError"]
        ELSE IF deleted.err # Nil /\ deleted.err # "NotFound" THEN deleted
        ELSE [store |-> deleted.store, err |-> Nil]

\* the delete item action run while Progress is being asked: velero gets the
\* error, the model of Progress keeps the store only
VolumeSnapshotBackupDeleteItemAction_Execute(key, backupLabel, backupName, fail) ==
    /\ vsbStore' = DeleteItemAction(vsbStore, key, backupLabel, backupName, fail).store
    /\ UNCHANGED <<classVars, itemVars, lastCancel, waitVars, dataMoverCase, vsrStore, callers, invocations, overlapped,
                   lastProgress>>

\* Progress of the backup action reads only VSBs and Progress of the restore
\* action only VSRs, so the runs start with one of the two requests, or none
InitProgress ==
    /\ dataMoverCase = TRUE
    /\ \/ vsbStore = EmptyStore /\ vsrStore = EmptyStore
       \/ vsbStore = Put(EmptyStore, ProgressVSBKey, ProgressVSB) /\ vsrStore = EmptyStore
       \/ vsbStore = EmptyStore /\ vsrStore = Put(EmptyStore, ProgressVSRKey, ProgressVSR)
    /\ callers = [c \in Callers |-> IdleCaller]
    /\ invocations = 0
    /\ overlapped = FALSE
    /\ lastProgress = NoProgress
    /\ lastCancel = NoCancel
    /\ datamoverTimeout = ""
    /\ wait = IdleWait
    /\ waited = NotWaited
    /\ bridge = NoBridge
    /\ lastDelete = NoDelete
    /\ flow = NoFlow
    /\ classStore = NoClasses
    /\ classExecs = [e \in Executors |-> IdleExec]

NextProgress ==
    \/ \E k \in DOMAIN vsbStore, st \in Statuses : WorkerSetVSBStatus(k, st)
    \/ \E k \in DOMAIN vsrStore, st \in Statuses : WorkerSetVSRStatus(k, st)
    \/ \E k \in DOMAIN vsbStore, backupName \in BackupNames, fail \in DeleteFailures :
           VolumeSnapshotBackupDeleteItemAction_Execute(
               k, vsbStore[k].Labels.backup, backupName, fail)
    \/ /\ lastProgress = NoProgress
       /\ \E h \in Handles, fault \in ProgressFaults : BackupProgress(h, fault)
    \/ /\ lastProgress = NoProgress
       /\ \E h \in Handles, fault \in ProgressFaults : BackupProgress_2(h, fault)
    \/ /\ lastProgress = NoProgress
       /\ \E h \in Handles, fault \in ProgressFaults : RestoreProgress(h, fault)
    \/ ProgressReturn

SpecProgress == InitProgress /\ [][NextProgress]_vars

\* ------------------------------------------- idempotent creation (C1..C4)
\* the VSBs in the store labelled with this backup name and this VSC name
VSBsFor(backupName, vscName) ==
    {k \in DOMAIN vsbStore : /\ vsbStore[k].Labels.backup = backupName
                             /\ vsbStore[k].Labels.vsc = vscName}

\* the caller's invocation returned without error for an item of its backup
Succeeded(c) ==
    /\ callers[c].pc = "done"
    /\ callers[c].result.err = Nil
    /\ dataMoverCase
    /\ callers[c].vsc.BackupLabel = callers[c].backup.Name

\* every invocation begun so far has returned and is the last one of its caller
AllReturned ==
    /\ \A c \in Callers : callers[c].pc \in {"idle", "done"}
    /\ Cardinality({c \in Callers : callers[c].pc = "done"}) = invocations

SamePair(c, d) ==
    /\ callers[c].vsc.Name = callers[d].vsc.Name
    /\ callers[c].backup.Name = callers[d].backup.Name

\* C1: after sequential successful Execute invocations for the same VSC under
\* the same backup the store holds at most one VSB labelled with that pair
C1_AtMostOneVSBPerPair ==
    (/\ ~overlapped
     /\ AllReturned
     /\ \A c \in Callers : callers[c].pc = "done" => Succeeded(c))
    => \A c \in Callers : callers[c].pc = "done" =>
           Cardinality(VSBsFor(callers[c].backup.Name, callers[c].vsc.Name)) <= 1

\* C2: two sequential Execute invocations for the same VSC and backup return
\* the same non-empty operationID, that of the single VSB of the pair
C2_RetryReturnsSameHandle ==
    \A c, d \in Callers :
        (/\ c # d
         /\ ~overlapped
         /\ AllReturned
         /\ Succeeded(c) /\ Succeeded(d)
         /\ SamePair(c, d))
        => /\ callers[c].result.operationID # <<>>
           /\ callers[c].result.operationID = callers[d].result.operationID
           /\ \E k \in VSBsFor(callers[c].backup.Name, callers[c].vsc.Name) :
                  callers[c].result.operationID = OperationID(k)

\* C3: two concurrent Execute invocations for the same VSC and backup leave
\* exactly one VSB for the pair and both return the same identity
C3_ConcurrentCreateOnce ==
    \A c, d \in Callers :
        (/\ c # d
         /\ overlapped
         /\ AllReturned
         /\ Succeeded(c) /\ Succeeded(d)
         /\ SamePair(c, d))
        => /\ Cardinality(VSBsFor(callers[c].backup.Name, callers[c].vsc.Name)) = 1
           /\ callers[c].result.operationID = callers[d].result.operationID

\* C4: an AlreadyExists answer to Create is treated as success: Execute returns
\* no error and the handle of an object in the store
C4_ConflictOnCreateIsSuccess ==
    \A c \in Callers :
        (callers[c].pc = "done" /\ callers[c].createAnswer = "AlreadyExists")
        => /\ callers[c].result.err = Nil
           /\ \E k \in DOMAIN vsbStore : callers[c].result.operationID = OperationID(k)

\* ------------------------------------------------------ Progress (C5..C10)
\* a Progress call has been answered with a progress record and a nil error
Answered == lastProgress.variant # "none" /\ lastProgress.result.kind = "ok"

\* the operationID splits on "/" into exactly two non-empty segments
WellFormed(operationID) ==
    LET segments == Split(operationID, Sep)
    IN  Len(segments) = 2 /\ segments[1] # <<>> /\ segments[2] # <<>>

HasSeparator(operationID) == \E i \in 1..Len(operationID) : operationID[i] = Sep

\* C5: for every fetched Phase and BatchingStatus, Progress returns
\* completed = true if and only if Phase is Completed or Failed
C5_CompletedIffTerminalPhase ==
    Answered =>
        (lastProgress.result.Completed
            <=> lastProgress.result.fetched.Phase \in {PhaseCompleted, PhaseFailed})

\* C6: in every Progress variant Phase = Failed gives completed = true with a
\* non-empty error, and Phase = Completed gives completed = true with no error
C6_TerminalPhaseReported ==
    Answered =>
        /\ lastProgress.result.fetched.Phase = PhaseFailed
               => lastProgress.result.Completed /\ lastProgress.result.Err # ""
        /\ lastProgress.result.fetched.Phase = PhaseCompleted
               => lastProgress.result.Completed /\ lastProgress.result.Err = ""

\* C8: Progress (backup and restore action) fails with InvalidOperationID and
\* performs no fetch for every operationID that is not two non-empty segments
C8_MalformedHandleRejected ==
    (/\ lastProgress.variant \in {"backup", "restore"}
     /\ lastProgress.result.kind # "ClientError"
     /\ ~WellFormed(lastProgress.operationID))
    => /\ lastProgress.result.kind = "InvalidOperationID"
       /\ lastProgress.result.fetches = 0

\* C9: in every Progress variant a non-empty operationID without separator
\* yields InvalidOperationID, without a crash and without reaching the store
C9_NoSeparatorRejected ==
    (/\ lastProgress.variant # "none"
     /\ lastProgress.result.kind # "ClientError"
     /\ lastProgress.operationID # <<>>
     /\ ~HasSeparator(lastProgress.operationID))
    => /\ lastProgress.result.kind = "InvalidOperationID"
       /\ lastProgress.result.fetches = 0

\* C10: Progress with an empty operationID returns InvalidOperationID before
\* it constructs a client or fetches anything, in every variant
C10_EmptyHandleRejectedFirst ==
    (lastProgress.variant # "none" /\ lastProgress.operationID = <<>>)
    => /\ lastProgress.result.kind = "InvalidOperationID"
       /\ lastProgress.result.clients = 0
       /\ lastProgress.result.fetches = 0

\* Progress of the restore action was called with the empty operationID while
\* a VSR is in the store, and answered InvalidOperationID
C10_Witness ==
    /\ lastProgress.variant = "restore"
    /\ lastProgress.operationID = <<>>
    /\ lastProgress.result.kind = "InvalidOperationID"
    /\ vsrStore # EmptyStore

\* ------------------------------------------------- tracking specification
\* every key the store can hold a VSB under
VSBKeys == {<<ns, VSBGenerateName \o suffix>> : ns \in Namespaces, suffix \in Suffixes}

\* the external data mover moves a VSB along New -> InProgress -> Completed or
\* Failed; BatchingStatus is present only while the request is InProgress
WorkerAdvance(k, outcome) ==
    /\ k \in DOMAIN vsbStore
    /\ LET st == vsbStore[k].Status
       IN  /\ st.Phase \in {"", "New", "InProgress"}
           /\ vsbStore' = [vsbStore EXCEPT ![k].Status =
                  IF st.Phase = "" THEN [Phase |-> "New", BatchingStatus |-> ""]
                  ELSE IF st.Phase = "New"
                  THEN [Phase |-> "InProgress", BatchingStatus |-> "Processing"]
                  ELSE [Phase |-> outcome, BatchingStatus |-> ""]]
    /\ UNCHANGED <<classVars, itemVars, lastCancel, waitVars, dataMoverCase, vsrStore, callers, invocations, overlapped, lastProgress>>

\* Execute returned an operationID to the caller
Returned(c) == callers[c].pc = "done" /\ callers[c].result.operationID # <<>>

\* the host polls Progress with the operationID that Execute returned to it
HostPoll(c) ==
    /\ Returned(c)
    /\ BackupProgress(callers[c].result.operationID, "none")

\* each item is processed once
ExecuteOnce(c, snapCont, backup, fail) ==
    /\ callers[c].pc = "idle"
    /\ ExecuteBegin(c, snapCont, backup, fail)

NextLive ==
    \/ \E c \in Callers, snapCont \in VSCs, backup \in Backups, fail \in ExecuteFailures :
           ExecuteOnce(c, snapCont, backup, fail)
    \/ \E c \in Callers, clientOK \in BOOLEAN, suffix \in Suffixes, fault \in BOOLEAN :
           ExecuteCreate(c, clientOK, suffix, fault)
    \/ \E c \in Callers, fault \in BOOLEAN : ExecuteReadBack(c, fault)
    \/ \E k \in VSBKeys, outcome \in {PhaseCompleted, PhaseFailed} : WorkerAdvance(k, outcome)
    \/ \E c \in Callers : HostPoll(c)
    \/ ProgressReturn

\* the data mover keeps working on every request, and the host keeps polling
\* every operationID it was given and keeps taking the answers
Fairness ==
    /\ \A k \in VSBKeys :
           WF_vars(\E outcome \in {PhaseCompleted, PhaseFailed} : WorkerAdvance(k, outcome))
    /\ \A c \in Callers : SF_vars(HostPoll(c))
    /\ WF_vars(ProgressReturn)

SpecLive == Init /\ [][NextLive]_vars /\ Fairness

\* C7: when Execute returned an operationID, the worker brings the request to a
\* terminal phase and the host keeps polling, some Progress call on that
\* operationID eventually returns completed = true
C7_TrackingCompletes ==
    \A c \in Callers :
        Returned(c) ~> (/\ Returned(c)
                        /\ lastProgress.variant = "backup"
                        /\ lastProgress.operationID = callers[c].result.operationID
                        /\ lastProgress.result.Completed)

\* ------------------------------------------- handle round trip (C11)
\* non-empty namespaces and names without separator, and the pairs of them
\* whose operationID fits the handles Progress is called with
NameSegments == {s \in SeqsUpTo(HandleChars \ {Sep}, MaxHandleLen - 2) : s # <<>>}
EncodablePairs ==
    {p \in NameSegments \X NameSegments : Len(p[1]) + Len(p[2]) + 1 <= MaxHandleLen}

\* the store that the Progress call of this variant reads
ProgressStore(variant) == IF variant = "restore" THEN vsrStore ELSE vsbStore

\* a step in which Progress is called and computes its answer
ProgressCalled == lastProgress = NoProgress /\ lastProgress' # NoProgress

\* the namespace and name each operationID built by Execute was built from
EncodedPair ==
    [h \in {OperationID(p) : p \in EncodablePairs} |->
        CHOOSE p \in EncodablePairs : OperationID(p) = h]

\* the answer lp of a Progress call comes from the object stored under key p
AnswersFromKey(lp, p) ==
    (/\ lp.operationID = OperationID(p)
     /\ lp.result.kind # "ClientError"
     /\ lp.result.cause # "StoreError")
    => /\ p \in DOMAIN ProgressStore(lp.variant)
           => /\ lp.result.kind = "ok"
              /\ lp.result.fetched = ProgressStore(lp.variant)[p].Status
       /\ p \notin DOMAIN ProgressStore(lp.variant)
           => /\ lp.result.kind = "FetchError"
              /\ lp.result.cause = "NotFound"

\* C11: for every non-empty namespace and name without "/", the operationID
\* built by Execute splits back into that namespace and name, and a Progress
\* call with it reads the object stored under exactly that key
C11_HandleRoundTrip ==
    /\ \A p \in EncodablePairs : Split(OperationID(p), Sep) = p
    /\ [][(ProgressCalled /\ lastProgress'.operationID \in DOMAIN EncodedPair)
              => AnswersFromKey(lastProgress', EncodedPair[lastProgress'.operationID])]_vars

\* Progress was called with the operationID Execute builds for the stored VSB
\* and answered from that VSB, whose status the data mover had written
C11_Witness ==
    /\ lastProgress.variant = "backup"
    /\ lastProgress.operationID = OperationID(ProgressVSBKey)
    /\ lastProgress.result.kind = "ok"
    /\ lastProgress.result.fetched.Phase = "InProgress"

\* ------------------------------------------------ absent object (C12)
\* the answer lp of a Progress call for an object that is not in the store
AbsentAnswer(lp) ==
    (/\ WellFormed(lp.operationID)
     /\ ProgressResultKey(lp.operationID) \notin DOMAIN ProgressStore(lp.variant)
     /\ lp.result.kind # "ClientError"
     /\ lp.result.cause # "StoreError")
    => /\ lp.result.kind = "FetchError"
       /\ lp.result.cause = "NotFound"
       /\ lp.result.Description = <<>>
       /\ ~lp.result.Completed

\* C12: Progress on a well-formed operationID whose object is not in the store
\* returns an error that wraps the store's NotFound, never a progress record
\* with a nil error
C12_AbsentObjectIsNotFound == [][ProgressCalled => AbsentAnswer(lastProgress')]_vars

\* Progress of the earlier backup variant was called with the operationID of
\* the VSB of the run while the store holds no VSB, and answered NotFound
C12_Witness ==
    /\ lastProgress.variant = "backup2"
    /\ lastProgress.operationID = OperationID(ProgressVSBKey)
    /\ vsbStore = EmptyStore
    /\ lastProgress.result.kind = "FetchError"
    /\ lastProgress.result.cause = "NotFound"

\* ------------------------------------------------------ pure read (C13)
\* C13: every Progress call, with any operationID and whatever the data mover
\* did before it, leaves the stored objects and their labels, spec and status
\* as they were
C13_ProgressIsPureRead ==
    [][ProgressCalled => (vsbStore' = vsbStore /\ vsrStore' = vsrStore)]_vars

\* Progress of the restore action reported a completed VSR, and the VSR is
\* still stored with the status the call read
C13_Witness ==
    /\ lastProgress.variant = "restore"
    /\ lastProgress.result.kind = "ok"
    /\ lastProgress.result.Completed
    /\ ProgressVSRKey \in DOMAIN vsrStore
    /\ vsrStore[ProgressVSRKey].Status = lastProgress.result.fetched

\* ------------------------------------------------------ single fetch (C15)
\* C15: a Progress call reads the store at most once and returns after that
\* read whatever phase it found: an answer with a nil error took exactly one
\* fetch, an error at most one
C15_SingleFetchPerCall ==
    lastProgress.variant # "none" =>
        /\ lastProgress.result.fetches <= 1
        /\ lastProgress.result.clients <= 1
        /\ lastProgress.result.kind = "ok" => lastProgress.result.fetches = 1
        /\ lastProgress.result.kind = "FetchError" => lastProgress.result.fetches = 1

\* Progress of the backup action found the VSB still in progress and returned
\* not completed after its one fetch
C15_Witness ==
    /\ lastProgress.variant = "backup"
    /\ lastProgress.result.kind = "ok"
    /\ lastProgress.result.fetched.Phase = "InProgress"
    /\ ~lastProgress.result.Completed
    /\ lastProgress.result.fetches = 1

\* ------------------------------------------------------------ Cancel (C14)
\* Cancel that aborts the request: it removes the VSB the operationID names
BackupCancel_Abort(operationID) ==
    /\ lastCancel' = [variant |-> "backup", operationID |-> operationID, err |-> Nil]
    /\ vsbStore' = IF WellFormed(operationID)
                   THEN Remove(vsbStore, ProgressResultKey(operationID))
                   ELSE vsbStore
    /\ UNCHANGED <<classVars, itemVars, waitVars, dataMoverCase, vsrStore, callers, invocations, overlapped,
                   lastProgress>>

\* VolumeSnapshotContentBackupItemActionV2.Cancel, part_002:226-228
BackupCancel(operationID) ==
    /\ lastCancel' = [variant |-> "backup", operationID |-> operationID, err |-> Nil]
    /\ UNCHANGED <<classVars, itemVars, waitVars, dataMoverCase, vsbStore, vsrStore, callers, invocations,
                   overlapped, lastProgress>>

\* VolumeSnapshotBackupRestoreItemActionV2.Cancel, part_004:172-174
RestoreCancel(operationID) ==
    /\ lastCancel' = [variant |-> "restore", operationID |-> operationID, err |-> Nil]
    /\ UNCHANGED <<classVars, itemVars, waitVars, dataMoverCase, vsbStore, vsrStore, callers, invocations,
                   overlapped, lastProgress>>

\* every key the store can hold a VSR under
VSRKeys == {<<ns, VSRGenerateName \o suffix>> : ns \in Namespaces, suffix \in Suffixes}

\* the external data mover moves a VSR along New -> InProgress -> Completed or
\* Failed, as it does a VSB
WorkerAdvanceVSR(k, outcome) ==
    /\ k \in DOMAIN vsrStore
    /\ LET st == vsrStore[k].Status
       IN  /\ st.Phase \in {"", "New", "InProgress"}
           /\ vsrStore' = [vsrStore EXCEPT ![k].Status =
                  IF st.Phase = "" THEN [Phase |-> "New", BatchingStatus |-> ""]
                  ELSE IF st.Phase = "New"
                  THEN [Phase |-> "InProgress", BatchingStatus |-> "Processing"]
                  ELSE [Phase |-> outcome, BatchingStatus |-> ""]]
    /\ UNCHANGED <<classVars, itemVars, lastCancel, waitVars, dataMoverCase, vsbStore, callers, invocations,
                   overlapped, lastProgress>>

\* the operationIDs Cancel is called with: the empty one, short malformed
\* ones, and those of the requests the store can hold
CancelHandles ==
    SeqsUpTo(HandleChars, 2) \cup {OperationID(k) : k \in VSBKeys \cup VSRKeys}

NextCancel ==
    \/ \E k \in VSBKeys, outcome \in {PhaseCompleted, PhaseFailed} : WorkerAdvance(k, outcome)
    \/ \E k \in VSRKeys, outcome \in {PhaseCompleted, PhaseFailed} : WorkerAdvanceVSR(k, outcome)
    \/ \E h \in CancelHandles : BackupCancel(h)
    \/ \E h \in CancelHandles : RestoreCancel(h)

\* the data mover keeps working on every request it was given
FairnessCancel ==
    /\ \A k \in VSBKeys :
           WF_vars(\E outcome \in {PhaseCompleted, PhaseFailed} : WorkerAdvance(k, outcome))
    /\ \A k \in VSRKeys :
           WF_vars(\E outcome \in {PhaseCompleted, PhaseFailed} : WorkerAdvanceVSR(k, outcome))

SpecCancel == InitProgress /\ [][NextCancel]_vars /\ FairnessCancel

\* a step in which Cancel is called and returns
CancelCalled == lastCancel' # lastCancel

Terminal(phase) == phase \in {PhaseCompleted, PhaseFailed}

\* C14: Cancel returns nil for every operationID and changes nothing in the
\* store, and every stored request still reaches Completed or Failed however
\* many Cancel calls are made on it
C14_CancelIsNoOp ==
    /\ [][CancelCalled => /\ lastCancel'.err = Nil
                          /\ vsbStore' = vsbStore
                          /\ vsrStore' = vsrStore]_vars
    /\ \A k \in VSBKeys :
           (k \in DOMAIN vsbStore)
               ~> (k \in DOMAIN vsbStore /\ Terminal(vsbStore[k].Status.Phase))
    /\ \A k \in VSRKeys :
           (k \in DOMAIN vsrStore)
               ~> (k \in DOMAIN vsrStore /\ Terminal(vsrStore[k].Status.Phase))

\* Cancel of the backup action was called with the operationID of the stored
\* VSB while it was in progress, and the VSB has since failed in the store
C14_Witness ==
    /\ lastCancel.variant = "backup"
    /\ lastCancel.operationID = OperationID(ProgressVSBKey)
    /\ lastCancel.err = Nil
    /\ ProgressVSBKey \in DOMAIN vsbStore
    /\ vsbStore[ProgressVSBKey].Status.Phase = PhaseFailed

\* ------------------------------------------------------------------ waits
\* durations in seconds
Interval == 5                   \* interval := 5 * time.Second
DefaultTimeout == 600           \* "10m", and 10 * time.Minute

\* the values DatamoverTimeout has in the environment; "" = unset
TimeoutValues == {"", "5s", "10s", "12s", "bad"}

\* time.ParseDuration on the strings above and on the default
ParseDuration(s) ==
    CASE s = "5s"  -> [err |-> Nil, d |-> 5]
      [] s = "10s" -> [err |-> Nil, d |-> 10]
      [] s = "12s" -> [err |-> Nil, d |-> 12]
      [] s = "10m" -> [err |-> Nil, d |-> 600]
      [] OTHER     -> [err |-> "ParseError", d |-> 0]

Min(a, b) == IF a < b THEN a ELSE b

\* the waits of util: for the status data of a VSB, for the VSRs listed for a
\* PVC, for one VSR to complete, and for a VSC to be ready
WaitKinds == {"vsb", "vsrList", "vsrComplete", "vsc"}

\* what the wait's object looks like in the cluster.  VSB: Conditions is none,
\* Reconciled=True or Reconciled=False with reason Error, and Data tells how
\* many of the five status fields are filled.  VSR: Phase and SnapshotHandle.
\* VSC: Status nil or not, SnapshotHandle, and ReadyToUse, which the snapshot
\* controller sets whenever it sets the handle.
WaitedStatuses(kind) ==
    {NotWaited} \cup
    CASE kind = "vsb" ->
            {[NotWaited EXCEPT !.exists = TRUE, !.HasStatus = TRUE,
                               !.Conditions = c, !.Data = d] :
                 c \in {"none", "ReconciledTrue", "ReconciledFalseError"},
                 d \in {"none", "partial", "full"}}
      [] kind \in {"vsrList", "vsrComplete"} ->
            {[NotWaited EXCEPT !.exists = TRUE, !.HasStatus = TRUE,
                               !.Phase = ph, !.SnapshotHandle = h] :
                 ph \in {"", "InProgress", PhaseCompleted, PhaseFailed, "PartiallyFailed"},
                 h \in {"", "handle"}}
      [] kind = "vsc" ->
            {[NotWaited EXCEPT !.exists = TRUE],
             [NotWaited EXCEPT !.exists = TRUE, !.HasStatus = TRUE],
             [NotWaited EXCEPT !.exists = TRUE, !.HasStatus = TRUE,
                               !.SnapshotHandle = "handle"],
             [NotWaited EXCEPT !.exists = TRUE, !.HasStatus = TRUE,
                               !.SnapshotHandle = "handle", !.ReadyToUse = TRUE]}
      [] OTHER -> {}

WaitFaults == {"none", "client", "fetch"}

\* one evaluation of the condition func passed to wait.PollImmediate:
\* outcome "ready" = (true, nil), "wait" = (false, nil), otherwise the error;
\* fetched tells whether the store was read
PollOutcome(outcome, fetched) == [outcome |-> outcome, fetched |-> fetched]

\* condition func of the VSB wait that retries after a failed fetch
VSBStatusDataCondition_Retry(obj, fault) ==
    IF fault = "fetch" \/ ~obj.exists THEN PollOutcome("wait", TRUE)
    ELSE IF obj.Conditions = "none" THEN PollOutcome("wait", TRUE)
    ELSE IF obj.Conditions = "ReconciledFalseError" THEN PollOutcome("TerminalFailure", TRUE)
    ELSE IF obj.Data # "full" THEN PollOutcome("wait", TRUE)
    ELSE PollOutcome("ready", TRUE)

\* condition func of the VSB wait that looks at the status data before the
\* conditions
VSBStatusDataCondition_DataFirst(obj, fault) ==
    IF fault = "fetch" \/ ~obj.exists THEN PollOutcome("FetchError", TRUE)
    ELSE IF obj.Data = "full" THEN PollOutcome("ready", TRUE)
    ELSE IF obj.Conditions = "none" THEN PollOutcome("wait", TRUE)
    ELSE IF obj.Conditions = "ReconciledFalseError" THEN PollOutcome("TerminalFailure", TRUE)
    ELSE PollOutcome("wait", TRUE)

\* condition func of GetVolumeSnapshotbackupWithStatusData, part_004:487-511
VSBStatusDataCondition(obj, fault) ==
    IF fault = "fetch" \/ ~obj.exists THEN PollOutcome("FetchError", TRUE)
    ELSE IF obj.Conditions = "none" THEN PollOutcome("wait", TRUE)
    ELSE IF obj.Conditions = "ReconciledFalseError" THEN PollOutcome("TerminalFailure", TRUE)
    ELSE IF obj.Data # "full" THEN PollOutcome("wait", TRUE)
    ELSE PollOutcome("ready", TRUE)

\* condition func of the listed wait that keeps waiting while no VSR is listed
VSRListCondition_RequireItem(obj, fault) ==
    IF fault = "client" THEN PollOutcome("ClientError", FALSE)
    ELSE IF fault = "fetch" THEN PollOutcome("FetchError", TRUE)
    ELSE IF ~obj.exists THEN PollOutcome("wait", TRUE)
    ELSE IF obj.Phase = PhaseFailed \/ obj.Phase = "PartiallyFailed"
    THEN PollOutcome("TerminalFailure", TRUE)
    ELSE IF obj.SnapshotHandle = "" \/ obj.Phase = "" THEN PollOutcome("wait", TRUE)
    ELSE PollOutcome("ready", TRUE)

\* condition func of GetVolumeSnapshotRestoreWithStatusData, part_004:541-570;
\* obj is Items[0] of the list, an empty list when it does not exist
VSRListCondition(obj, fault) ==
    IF fault = "client" THEN PollOutcome("ClientError", FALSE)
    ELSE IF fault = "fetch" THEN PollOutcome("FetchError", TRUE)
    ELSE IF ~obj.exists THEN PollOutcome("ready", TRUE)
    ELSE IF obj.Phase = PhaseFailed \/ obj.Phase = "PartiallyFailed"
    THEN PollOutcome("TerminalFailure", TRUE)
    ELSE IF obj.SnapshotHandle = "" \/ obj.Phase = "" THEN PollOutcome("wait", TRUE)
    ELSE PollOutcome("ready", TRUE)

\* condition func of the VSR wait without the check for a failed VSR
VSRCompleteCondition_NoFailedCheck(obj, fault) ==
    IF fault = "fetch" \/ ~obj.exists THEN PollOutcome("FetchError", TRUE)
    ELSE IF obj.SnapshotHandle = "" \/ obj.Phase = "" \/ obj.Phase # PhaseCompleted
    THEN PollOutcome("wait", TRUE)
    ELSE PollOutcome("ready", TRUE)

\* condition func of CheckIfVolumeSnapshotRestoresAreComplete, part_004:729-750
VSRCompleteCondition(obj, fault) ==
    IF fault = "fetch" \/ ~obj.exists THEN PollOutcome("FetchError", TRUE)
    ELSE IF obj.Phase = PhaseFailed THEN PollOutcome("TerminalFailure", TRUE)
    ELSE IF obj.SnapshotHandle = "" \/ obj.Phase = "" \/ obj.Phase # PhaseCompleted
    THEN PollOutcome("wait", TRUE)
    ELSE PollOutcome("ready", TRUE)

\* condition func of WaitForVolumeSnapshotContentToBeReady, part_004:638-649
VSCReadyCondition(obj, fault) ==
    IF fault = "fetch" \/ ~obj.exists THEN PollOutcome("FetchError", TRUE)
    ELSE IF ~obj.HasStatus \/ obj.SnapshotHandle = "" \/ obj.ReadyToUse # TRUE
    THEN PollOutcome("wait", TRUE)
    ELSE PollOutcome("ready", TRUE)

Condition(kind, obj, fault) ==
    CASE kind = "vsb" -> VSBStatusDataCondition(obj, fault)
      [] kind = "vsrList" -> VSRListCondition(obj, fault)
      [] kind = "vsrComplete" -> VSRCompleteCondition(obj, fault)
      [] kind = "vsc" -> VSCReadyCondition(obj, fault)

\* the timeout a wait of this kind computes before it polls: the VSC wait
\* uses 10 * time.Minute, the others parse DatamoverTimeout or "10m"
WaitTimeout(kind, env) ==
    IF kind = "vsc" THEN [err |-> Nil, d |-> DefaultTimeout]
    ELSE ParseDuration(IF env # "" THEN env ELSE "10m")

\* a wait that ended without polling further, with this result
WaitDone(w, result) == [w EXCEPT !.pc = "done", !.result = result]

\* a wait entered through wait.Poll, which sleeps one interval before it
\* first runs the condition func
WaitBegin_Poll(kind, clientOK, obj) ==
    /\ wait.pc = "idle"
    /\ LET t == WaitTimeout(kind, datamoverTimeout)
           w == [IdleWait EXCEPT !.kind = kind, !.timeout = t.d]
       IN  wait' = IF t.err # Nil THEN WaitDone(w, "ParseError")
                   ELSE IF kind \in {"vsb", "vsrComplete"} /\ ~clientOK
                   THEN WaitDone(w, "ClientError")
                   ELSE [w EXCEPT !.pc = "sleep"]
    /\ waited' = obj
    /\ UNCHANGED <<classVars, itemVars, lastCancel, datamoverTimeout, dataMoverCase, vsbStore, vsrStore,
                   callers, invocations, overlapped, lastProgress>>

\* a wait function is entered: it computes its timeout, gets its client where
\* it does so before polling, and calls wait.PollImmediate
WaitBegin(kind, clientOK, obj) ==
    /\ wait.pc = "idle"
    /\ LET t == WaitTimeout(kind, datamoverTimeout)
           w == [IdleWait EXCEPT !.kind = kind, !.timeout = t.d]
       IN  wait' = IF t.err # Nil THEN WaitDone(w, "ParseError")
                   ELSE IF kind \in {"vsb", "vsrComplete"} /\ ~clientOK
                   THEN WaitDone(w, "ClientError")
                   ELSE [w EXCEPT !.pc = "poll"]
    /\ waited' = obj
    /\ UNCHANGED <<classVars, itemVars, lastCancel, datamoverTimeout, dataMoverCase, vsbStore, vsrStore,
                   callers, invocations, overlapped, lastProgress>>

\* a poll loop that gives up when the next tick would not come before the timeout
WaitPoll_Early(fault) ==
    /\ wait.pc = "poll"
    /\ LET c == Condition(wait.kind, waited, fault)
           w == [wait EXCEPT !.polls = @ + 1,
                             !.fetches = IF c.fetched THEN @ + 1 ELSE @,
                             !.lastPollAt = wait.elapsed,
                             !.lastFault = fault,
                             !.lastOutcome = c.outcome]
       IN  wait' = IF c.outcome = "ready" THEN WaitDone(w, "ok")
                   ELSE IF c.outcome # "wait" THEN WaitDone(w, c.outcome)
                   ELSE IF wait.elapsed + Interval >= wait.timeout THEN WaitDone(w, "Timeout")
                   ELSE [w EXCEPT !.pc = "sleep"]
    /\ UNCHANGED <<classVars, itemVars, lastCancel, datamoverTimeout, waited, dataMoverCase, vsbStore,
                   vsrStore, callers, invocations, overlapped, lastProgress>>

\* wait.PollImmediate runs the condition func: at once on entry, then after
\* every interval, and a last time when the timeout is reached
WaitPoll(fault) ==
    /\ wait.pc = "poll"
    /\ LET c == Condition(wait.kind, waited, fault)
           w == [wait EXCEPT !.polls = @ + 1,
                             !.fetches = IF c.fetched THEN @ + 1 ELSE @,
                             !.lastPollAt = wait.elapsed,
                             !.lastFault = fault,
                             !.lastOutcome = c.outcome]
       IN  wait' = IF c.outcome = "ready" THEN WaitDone(w, "ok")
                   ELSE IF c.outcome # "wait" THEN WaitDone(w, c.outcome)
                   ELSE IF wait.elapsed >= wait.timeout THEN WaitDone(w, "Timeout")
                   ELSE [w EXCEPT !.pc = "sleep"]
    /\ UNCHANGED <<classVars, itemVars, lastCancel, datamoverTimeout, waited, dataMoverCase, vsbStore,
                   vsrStore, callers, invocations, overlapped, lastProgress>>

\* the poller sleeps until the next tick or until the timeout, whichever is first
WaitSleep ==
    /\ wait.pc = "sleep"
    /\ wait' = [wait EXCEPT !.pc = "poll",
                            !.elapsed = Min(@ + Interval, wait.timeout)]
    /\ UNCHANGED <<classVars, itemVars, lastCancel, datamoverTimeout, waited, dataMoverCase, vsbStore,
                   vsrStore, callers, invocations, overlapped, lastProgress>>

\* the wait function returns to its caller
WaitReturn ==
    /\ wait.pc = "done"
    /\ wait' = IdleWait
    /\ waited' = NotWaited
    /\ UNCHANGED <<classVars, itemVars, lastCancel, datamoverTimeout, dataMoverCase, vsbStore, vsrStore,
                   callers, invocations, overlapped, lastProgress>>

\* the controller of the waited object writes its status, creates or deletes it
ControllerSet(obj) ==
    /\ wait.pc \in {"poll", "sleep"}
    /\ obj # waited
    /\ waited' = obj
    /\ UNCHANGED <<classVars, itemVars, lastCancel, datamoverTimeout, wait, dataMoverCase, vsbStore,
                   vsrStore, callers, invocations, overlapped, lastProgress>>

InitWait ==
    /\ dataMoverCase = TRUE
    /\ vsbStore = EmptyStore
    /\ vsrStore = EmptyStore
    /\ callers = [c \in Callers |-> IdleCaller]
    /\ invocations = 0
    /\ overlapped = FALSE
    /\ lastProgress = NoProgress
    /\ lastCancel = NoCancel
    /\ datamoverTimeout \in TimeoutValues
    /\ wait = IdleWait
    /\ waited = NotWaited
    /\ bridge = NoBridge
    /\ lastDelete = NoDelete
    /\ flow = NoFlow
    /\ classStore = NoClasses
    /\ classExecs = [e \in Executors |-> IdleExec]

NextWait ==
    \/ /\ wait.pc = "idle"
       /\ \E kind \in WaitKinds, clientOK \in BOOLEAN :
              \E obj \in WaitedStatuses(kind) : WaitBegin(kind, clientOK, obj)
    \/ \E fault \in WaitFaults : WaitPoll(fault)
    \/ WaitSleep
    \/ WaitReturn
    \/ /\ wait.pc \in {"poll", "sleep"}
       /\ \E obj \in WaitedStatuses(wait.kind) : ControllerSet(obj)

\* a wait that was entered keeps running: it polls, sleeps and returns
FairnessWait ==
    /\ WF_vars(\E fault \in WaitFaults : WaitPoll(fault))
    /\ WF_vars(WaitSleep)

SpecWait == InitWait /\ [][NextWait]_vars /\ FairnessWait

PollStep == wait'.polls = wait.polls + 1

\* C17: a wait runs its condition func at once on entry and then once per
\* interval; when the k-th run finds the object ready the wait returns success
\* at that moment, k - 1 intervals after entry, and polls no more: success on
\* the second poll comes after one interval
C17_ReadyOnKthFetchReturnsAtOnce ==
    /\ [](wait.polls > 0 =>
              wait.lastPollAt = Min((wait.polls - 1) * Interval, wait.timeout))
    /\ [](wait.pc = "sleep" => wait.elapsed = wait.lastPollAt)
    /\ [](wait.result = "ok" => /\ wait.lastOutcome = "ready"
                                /\ wait.elapsed = wait.lastPollAt)
    /\ []((wait.result = "ok" /\ wait.polls = 2)
              => wait.elapsed = Min(Interval, wait.timeout))
    /\ [][(PollStep /\ wait'.lastOutcome = "ready")
              => /\ wait'.pc = "done"
                 /\ wait'.result = "ok"
                 /\ wait'.elapsed = wait.elapsed]_vars
    /\ [][wait.pc = "done" => wait'.polls \in {wait.polls, 0}]_vars

\* the VSB wait with the default timeout found the status data on its second
\* fetch and returned success after one interval
C17_Witness ==
    /\ wait.kind = "vsb"
    /\ wait.timeout = DefaultTimeout
    /\ wait.result = "ok"
    /\ wait.polls = 2
    /\ wait.fetches = 2
    /\ wait.elapsed = Interval

\* -------------------------------------------------------- fail fast (C18)
\* the known-bad terminal states: a VSB whose condition Reconciled is False
\* with reason Error, a VSR whose Phase is Failed
KnownBad(kind, obj) ==
    /\ obj.exists
    /\ \/ kind = "vsb" /\ obj.Conditions = "ReconciledFalseError"
       \/ kind \in {"vsrList", "vsrComplete"} /\ obj.Phase = PhaseFailed

\* C18: the poll whose fetch shows the request in a known-bad terminal state
\* ends the wait with a failure in that very iteration: no time passes, no
\* further poll is made and the rest of the timeout is not waited out
C18_FailFastOnTerminalState ==
    /\ [][(PollStep /\ wait'.lastFault = "none" /\ KnownBad(wait.kind, waited))
              => /\ wait'.pc = "done"
                 /\ wait'.result = "TerminalFailure"
                 /\ wait'.elapsed = wait.elapsed
                 /\ wait'.fetches = wait.fetches + 1]_vars
    /\ [](wait.result = "TerminalFailure" => wait.elapsed = wait.lastPollAt)
    /\ [][wait.result = "TerminalFailure" => wait'.fetches \in {wait.fetches, 0}]_vars

\* the wait for a VSR to complete, with the default timeout, saw Phase Failed
\* on its second fetch and failed after one interval
C18_Witness ==
    /\ wait.kind = "vsrComplete"
    /\ wait.timeout = DefaultTimeout
    /\ wait.result = "TerminalFailure"
    /\ waited.Phase = PhaseFailed
    /\ wait.fetches = 2
    /\ wait.elapsed = Interval

\* ----------------------------------------------- fetch error aborts (C19)
\* the object as a wait of its kind wants it: the next fetch would end the wait
\* with success
ReadyObject(kind, obj) == Condition(kind, obj, "none").outcome = "ready"

\* C19: the first fetch that fails ends the wait in that iteration with the
\* fetch error; no time passes and no later fetch is made, whatever is left of
\* the timeout and whatever the store would have answered next
C19_FetchErrorAbortsWait ==
    /\ [][(PollStep /\ wait'.lastFault = "fetch")
              => /\ wait'.pc = "done"
                 /\ wait'.result = "FetchError"
                 /\ wait'.elapsed = wait.elapsed
                 /\ wait'.fetches = wait.fetches + 1]_vars
    /\ [](wait.lastFault = "fetch" => wait.pc = "done" /\ wait.result = "FetchError")
    /\ [][wait.result = "FetchError" => wait'.fetches \in {wait.fetches, 0}]_vars

\* the VSB wait, with the default timeout, failed on the error of its second
\* fetch although the VSB in the cluster has all its status data
C19_Witness ==
    /\ wait.kind = "vsb"
    /\ wait.timeout = DefaultTimeout
    /\ wait.result = "FetchError"
    /\ wait.lastFault = "fetch"
    /\ wait.fetches = 2
    /\ wait.elapsed = Interval
    /\ ReadyObject("vsb", waited)

\* ----------------------------------------------- configured timeout (C20)
\* the timeout the environment asks for: DatamoverTimeout, or 10m when unset
ConfiguredTimeout ==
    IF datamoverTimeout = "" THEN DefaultTimeout ELSE ParseDuration(datamoverTimeout).d

\* C20: with DatamoverTimeout set to a duration T every wait that times out
\* does so after T, the wait for the VSC to be ready included; with it unset
\* every wait times out after 10 minutes
C20_EveryWaitUsesConfiguredTimeout ==
    (/\ wait.result = "Timeout"
     /\ datamoverTimeout = "" \/ ParseDuration(datamoverTimeout).err = Nil)
    => wait.elapsed = ConfiguredTimeout


\* ============================================================ status bridge
\* The VSB item action of the backup copies five status fields into
\* annotations; velero persists the item without its status; the restore item
\* action builds a VolumeSnapshotRestore from the annotations.

\* the annotation keys of the model: the five keys of util and one other key
WhitelistKeys == {VolumeSnapshotMoverResticRepository,
                  VolumeSnapshotMoverSourcePVCName,
                  VolumeSnapshotMoverSourcePVCSize,
                  VolumeSnapshotMoverSourcePVCStorageClass,
                  VolumeSnapshotMoverVolumeSnapshotClass}
OtherKey == "example.com/other"
AnnotationKeys == WhitelistKeys \cup {OtherKey}

\* non-empty status values, and the status snapshots the data mover can leave
StatusValues == {"x", "y"}
Snapshots == [ResticRepository : StatusValues \cup {""},
              SourcePVCData : [Name : StatusValues \cup {""},
                               Size : StatusValues \cup {""},
                               StorageClassName : StatusValues \cup {""}],
              VolumeSnapshotClassName : StatusValues \cup {""}]

\* the ObjectMeta of the VSB items handed to the actions: no annotation map, or
\* a map holding any subset of the keys, with values from an earlier run
ItemMetas == {NilMeta} \cup
             {[HasAnnotations |-> TRUE,
               Annotations |-> [k \in ks |-> IF k = OtherKey THEN "o" ELSE "old"]] :
                  ks \in SUBSET AnnotationKeys}

\* status data taken as sufficient as soon as the repository is known
HasStatusData_RepositoryOnly(status) == status.ResticRepository # ""

\* the status data the wait for a VSB requires, part_004:503
HasStatusData(status) ==
    ~ (\/ status.ResticRepository = ""
       \/ status.SourcePVCData.Name = ""
       \/ status.SourcePVCData.Size = ""
       \/ status.SourcePVCData.StorageClassName = ""
       \/ status.VolumeSnapshotClassName = "")

\* AddAnnotations that replaces the map by the supplied pairs
AddAnnotations_Replace(o, vals) ==
    [o EXCEPT !.HasAnnotations = TRUE, !.Annotations = vals]

\* util.AddAnnotations, part_004:418-426
AddAnnotations(o, vals) ==
    LET annotations == IF ~o.HasAnnotations THEN NoAnnotationMap ELSE o.Annotations
    IN  [o EXCEPT !.HasAnnotations = TRUE,
                  !.Annotations = [k \in DOMAIN annotations \cup DOMAIN vals |->
                                      IF k \in DOMAIN vals THEN vals[k] ELSE annotations[k]]]

\* vals with the PVC name and the PVC size exchanged
StatusVals_Swapped(status) ==
    [k \in WhitelistKeys |->
        CASE k = VolumeSnapshotMoverResticRepository -> status.ResticRepository
          [] k = VolumeSnapshotMoverSourcePVCName -> status.SourcePVCData.Size
          [] k = VolumeSnapshotMoverSourcePVCSize -> status.SourcePVCData.Name
          [] k = VolumeSnapshotMoverSourcePVCStorageClass -> status.SourcePVCData.StorageClassName
          [] k = VolumeSnapshotMoverVolumeSnapshotClass -> status.VolumeSnapshotClassName]

\* vals that also carry a key the restore flow does not know
StatusVals_Extra(status) ==
    [k \in AnnotationKeys |->
        CASE k = VolumeSnapshotMoverResticRepository -> status.ResticRepository
          [] k = VolumeSnapshotMoverSourcePVCName -> status.SourcePVCData.Name
          [] k = VolumeSnapshotMoverSourcePVCSize -> status.SourcePVCData.Size
          [] k = VolumeSnapshotMoverSourcePVCStorageClass -> status.SourcePVCData.StorageClassName
          [] k = VolumeSnapshotMoverVolumeSnapshotClass -> status.VolumeSnapshotClassName
          [] OTHER -> status.VolumeSnapshotClassName]

\* the vals map of the VSB backup item action, part_001:52-58
StatusVals(status) ==
    [k \in WhitelistKeys |->
        CASE k = VolumeSnapshotMoverResticRepository -> status.ResticRepository
          [] k = VolumeSnapshotMoverSourcePVCName -> status.SourcePVCData.Name
          [] k = VolumeSnapshotMoverSourcePVCSize -> status.SourcePVCData.Size
          [] k = VolumeSnapshotMoverSourcePVCStorageClass -> status.SourcePVCData.StorageClassName
          [] k = VolumeSnapshotMoverVolumeSnapshotClass -> status.VolumeSnapshotClassName]

BridgeVariants == {"part_001", "internal"}
BridgeFailures == {"none", "convert", "wait", "unstructured", "clients", "class"}

\* VolumeSnapshotBackupBackupItemAction.Execute, part_001:37-104 (with the
\* temporary VolumeSnapshotClass) and internal/backup/volumesnapshotbackup_action.go:31-63
\* (without it), on a VSB item with ObjectMeta meta; status is what the cluster
\* holds for the VSB while GetVolumeSnapshotbackupWithStatusData waits
VolumeSnapshotBackupBackupItemAction_Execute(meta, status, variant, fail) ==
    LET waitErr == IF fail = "wait" THEN "WaitError"
                   ELSE IF ~HasStatusData(status) THEN "Timeout"
                   ELSE Nil
        annotated == [meta |-> AddAnnotations(meta, StatusVals(status)),
                      HasStatus |-> TRUE, Status |-> status]
        err == IF fail = "convert" THEN "ConvertError"
               ELSE IF waitErr # Nil THEN waitErr
               ELSE IF fail = "unstructured" THEN "ConvertError"
               ELSE IF variant = "part_001" /\ fail = "clients" THEN "ClientError"
               ELSE IF variant = "part_001" /\ fail = "class" THEN "CreateError"
               ELSE Nil
        \* the class is created (or found) once the action reaches Create
        classDone == /\ variant = "part_001"
                     /\ fail \notin {"convert", "unstructured", "clients", "class"}
                     /\ waitErr = Nil
    IN  /\ bridge.pc = "none"
        /\ bridge' = [bridge EXCEPT
               !.pc = IF err = Nil THEN "backedUp" ELSE "failed",
               !.variant = variant,
               !.item = meta,
               !.snapshot = IF err = Nil THEN status ELSE ZeroSnapshot,
               !.vsb = IF err = Nil THEN annotated ELSE bridge.vsb,
               !.snapclass = classDone,
               !.fault = fail,
               !.err = err]
        /\ classStore' = IF classDone /\ TempVSCName(ProgressVSB.Labels.backup) \notin DOMAIN classStore
                         THEN Put(classStore, TempVSCName(ProgressVSB.Labels.backup), TempVSC)
                         ELSE classStore
        /\ UNCHANGED <<classExecs, lastDelete, flow, lastCancel, waitVars, dataMoverCase, vsbStore,
                       vsrStore, callers, invocations, overlapped, lastProgress>>

\* velero writes the returned item into the backup without its status
VeleroPersist ==
    /\ bridge.pc = "backedUp"
    /\ bridge' = [bridge EXCEPT !.pc = "persisted",
                                !.vsb = [bridge.vsb EXCEPT !.HasStatus = FALSE,
                                                           !.Status = ZeroSnapshot]]
    /\ UNCHANGED <<classVars, lastDelete, flow, lastCancel, waitVars, dataMoverCase, vsbStore,
                   vsrStore, callers, invocations, overlapped, lastProgress>>

\* a backup holding a VSB item that no VSB backup item action has annotated
VeleroLoad(meta) ==
    /\ bridge.pc = "none"
    /\ bridge' = [bridge EXCEPT !.pc = "persisted", !.variant = "loaded", !.item = meta,
                                !.vsb = [meta |-> meta, HasStatus |-> FALSE,
                                         Status |-> ZeroSnapshot]]
    /\ UNCHANGED <<classVars, lastDelete, flow, lastCancel, waitVars, dataMoverCase, vsbStore,
                   vsrStore, callers, invocations, overlapped, lastProgress>>

\* the VSB of the bridge as the restore item action converts it
BridgeVSB == [Annotations |-> bridge.vsb.meta.Annotations, Spec |-> ProgressVSB.Spec]

\* Restore.Spec.NamespaceMapping applied to the namespace of the VSB
MappedNamespace == <<"m">>
RestoreNamespace(ns, mapped) == IF mapped THEN MappedNamespace ELSE ns

RestoreVariants == {"V2", "internal"}
RestoreFailures == {"none", "convert", "client", "create", "get"}

\* restore Execute that refuses a VSB without all five annotations
RestoreItemAction_RequireAnnotations(restoreName, suffix, mapped, variant, fail) ==
    /\ bridge.pc \in {"backedUp", "persisted"}
    /\ bridge' = [bridge EXCEPT !.pc = "restored", !.fault = fail,
                                !.vsrKey = IF WhitelistKeys \subseteq DOMAIN BridgeVSB.Annotations
                                           THEN <<ProgressNamespace, VSRGenerateName \o suffix>>
                                           ELSE NoKey,
                                !.err = IF WhitelistKeys \subseteq DOMAIN BridgeVSB.Annotations
                                        THEN Nil ELSE "MissingAnnotation"]
    /\ vsrStore' = IF WhitelistKeys \subseteq DOMAIN BridgeVSB.Annotations
                   THEN Put(vsrStore, <<ProgressNamespace, VSRGenerateName \o suffix>>,
                            NewVSR(BridgeVSB, restoreName))
                   ELSE vsrStore
    /\ UNCHANGED <<classVars, lastDelete, flow, lastCancel, waitVars, dataMoverCase, vsbStore,
                   callers, invocations, overlapped, lastProgress>>

\* VolumeSnapshotBackupRestoreItemActionV2.Execute, part_004:41-111, and
\* VolumeSnapshotRestoreRestoreItemAction.Execute,
\* internal/restore/volumesnapshotrestore_action.go:32-95, on the VSB item of
\* the bridge
\* restore Execute with an existence lookup before Create: a request that
\* already carries the labels of the restore is answered again
RestoreItemAction_LookupFirst(restoreName, suffix, mapped, variant, fail) ==
    LET key == <<RestoreNamespace(ProgressNamespace, mapped), VSRGenerateName \o suffix>>
        found == {k \in DOMAIN vsrStore :
                     vsrStore[k].Labels = NewVSR(BridgeVSB, restoreName).Labels}
        used == IF found # {} THEN CHOOSE k \in found : TRUE ELSE key
        err == IF fail \in {"convert", "client"} THEN "ClientError"
               ELSE IF found = {} /\ (fail = "create" \/ key \in DOMAIN vsrStore)
               THEN "CreateError"
               ELSE Nil
    IN  /\ bridge.pc \in {"backedUp", "persisted"}
        /\ vsrStore' = IF err = Nil /\ found = {}
                       THEN Put(vsrStore, key, NewVSR(BridgeVSB, restoreName))
                       ELSE vsrStore
        /\ bridge' = [bridge EXCEPT
               !.pc = "restored", !.fault = fail, !.err = err,
               !.vsrKey = IF err = Nil THEN used ELSE NoKey,
               !.operationID = IF err = Nil /\ variant = "V2" THEN OperationID(used) ELSE <<>>,
               !.SkipRestore = (err = Nil)]
        /\ UNCHANGED <<classVars, lastDelete, flow, lastCancel, waitVars, dataMoverCase, vsbStore,
                       callers, invocations, overlapped, lastProgress>>

RestoreItemAction_Execute(restoreName, suffix, mapped, variant, fail) ==
    LET key == <<RestoreNamespace(ProgressNamespace, mapped), VSRGenerateName \o suffix>>
        createErr == fail = "create" \/ key \in DOMAIN vsrStore
        err == IF fail = "convert" THEN "ConvertError"
               ELSE IF fail = "client" THEN "ClientError"
               ELSE IF createErr THEN "CreateError"
               ELSE IF variant = "V2" /\ fail = "get" THEN "GetError"
               ELSE Nil
        created == fail \notin {"convert", "client"} /\ ~createErr
    IN  /\ bridge.pc \in {"backedUp", "persisted"}
        /\ vsrStore' = IF created THEN Put(vsrStore, key, NewVSR(BridgeVSB, restoreName))
                       ELSE vsrStore
        /\ bridge' = [bridge EXCEPT
               !.pc = "restored",
               !.fault = fail,
               !.err = err,
               !.vsrKey = IF created THEN key ELSE NoKey,
               !.operationID = IF err = Nil /\ variant = "V2" THEN OperationID(key) ELSE <<>>,
               !.SkipRestore = (err = Nil)]
        /\ UNCHANGED <<classVars, lastDelete, flow, lastCancel, waitVars, dataMoverCase, vsbStore,
                       callers, invocations, overlapped, lastProgress>>

InitBridge ==
    /\ dataMoverCase = TRUE
    /\ vsbStore = Put(EmptyStore, ProgressVSBKey, ProgressVSB)
    /\ vsrStore = EmptyStore
    /\ callers = [c \in Callers |-> IdleCaller]
    /\ invocations = 0
    /\ overlapped = FALSE
    /\ lastProgress = NoProgress
    /\ lastCancel = NoCancel
    /\ datamoverTimeout = ""
    /\ wait = IdleWait
    /\ waited = NotWaited
    /\ bridge = NoBridge
    /\ lastDelete = NoDelete
    /\ flow = NoFlow
    /\ classStore = NoClasses
    /\ classExecs = [e \in Executors |-> IdleExec]

NextBridge ==
    \/ /\ bridge.pc = "none"
       /\ \E meta \in ItemMetas, status \in Snapshots, variant \in BridgeVariants,
             fail \in BridgeFailures :
              VolumeSnapshotBackupBackupItemAction_Execute(meta, status, variant, fail)
    \/ VeleroPersist
    \/ /\ bridge.pc = "none"
       /\ \E meta \in ItemMetas : VeleroLoad(meta)
    \/ /\ bridge.pc \in {"backedUp", "persisted"}
       /\ \E restoreName \in RestoreNames, suffix \in Suffixes, mapped \in BOOLEAN,
             variant \in RestoreVariants, fail \in RestoreFailures :
              RestoreItemAction_Execute(restoreName, suffix, mapped, variant, fail)

SpecBridge == InitBridge /\ [][NextBridge]_vars

\* ------------------------------------------------------ Annotate (C21)
\* the step in which the VSB backup item action returned the annotated item
BackupActed == bridge.pc = "none" /\ bridge'.pc = "backedUp"

\* maps of supplied pairs: any subset of the keys, each with a new value
SuppliedMaps == UNION {[ks -> {"new"}] : ks \in SUBSET AnnotationKeys}

\* after = AddAnnotations(before, vals): every supplied key holds the supplied
\* value, a map exists, and every other annotation is as it was
Annotated(before, vals, after) ==
    LET old == IF before.HasAnnotations THEN before.Annotations ELSE NoAnnotationMap
    IN  /\ after.HasAnnotations
        /\ DOMAIN after.Annotations = DOMAIN old \cup DOMAIN vals
        /\ \A k \in DOMAIN vals : after.Annotations[k] = vals[k]
        /\ \A k \in DOMAIN old \ DOMAIN vals : after.Annotations[k] = old[k]

\* C21: Annotate sets every supplied whitelist key to the supplied value,
\* creates the annotation map when the object has none, and leaves the key and
\* value of every annotation outside the supplied set unchanged -- in the item
\* the backup action returns, and for every other map of pairs that could be
\* supplied for the same item.
C21_AnnotateFrame ==
    [][BackupActed =>
          /\ Annotated(bridge'.item, StatusVals(bridge'.snapshot), bridge'.vsb.meta)
          /\ \A vals \in SuppliedMaps :
                 Annotated(bridge'.item, vals, AddAnnotations(bridge'.item, vals))]_vars

\* an item with an unrelated annotation and a stale whitelisted one was
\* annotated: the unrelated one is kept, the stale one overwritten
C21_Witness ==
    /\ bridge.pc = "backedUp"
    /\ bridge.item.HasAnnotations
    /\ {OtherKey, VolumeSnapshotMoverSourcePVCName} \subseteq DOMAIN bridge.item.Annotations
    /\ bridge.item.Annotations[VolumeSnapshotMoverSourcePVCName] = "old"
    /\ bridge.vsb.meta.Annotations[OtherKey] = "o"
    /\ bridge.vsb.meta.Annotations[VolumeSnapshotMoverSourcePVCName] = "x"


\* ------------------------------------------- bridge round trip (C22..C24)
\* the step in which restore Execute created a VSR from the VSB of the bridge
RestoreCreated == bridge.pc \in {"backedUp", "persisted"} /\ bridge'.vsrKey # NoKey

\* the five values the VSR carries are those of the status snapshot
ReadsBack(vsr, status) ==
    /\ vsr.Spec.ResticRepository = status.ResticRepository
    /\ vsr.Spec.PVCName = status.SourcePVCData.Name
    /\ vsr.Spec.PVCSize = status.SourcePVCData.Size
    /\ vsr.Spec.PVCStorageClassName = status.SourcePVCData.StorageClassName
    /\ vsr.Spec.VolumeSnapshotClassName = status.VolumeSnapshotClassName

\* C22: for every status snapshot whose five whitelisted fields are non-empty,
\* the values the restore flow reads back from the annotations written by the
\* backup flow equal the snapshot field for field, also when the live status
\* of the object was stripped in between.
C22_BridgeRoundTrip ==
    [][(RestoreCreated /\ bridge.variant \in BridgeVariants /\ HasStatusData(bridge.snapshot))
          => ReadsBack(vsrStore'[bridge'.vsrKey], bridge.snapshot)]_vars

\* a VSR was built from a persisted (status stripped) VSB whose snapshot had
\* two different values, replacing stale annotations
C22_Witness ==
    /\ bridge.pc = "restored"
    /\ bridge.variant \in BridgeVariants
    /\ bridge.vsrKey \in DOMAIN vsrStore
    /\ ~bridge.vsb.HasStatus
    /\ bridge.snapshot.SourcePVCData.Name = "x"
    /\ bridge.snapshot.SourcePVCData.Size = "y"
    /\ bridge.item.HasAnnotations
    /\ VolumeSnapshotMoverSourcePVCSize \in DOMAIN bridge.item.Annotations
    /\ vsrStore[bridge.vsrKey].Spec.PVCName = "x"
    /\ vsrStore[bridge.vsrKey].Spec.PVCSize = "y"


\* the keys the backup flow writes: those whose annotation the VSB backup item
\* action can change on some item
WriteSet ==
    {k \in AnnotationKeys :
        \E o \in ItemMetas, s \in {t \in Snapshots : HasStatusData(t)} :
            Annotation(AddAnnotations(o, StatusVals(s)).Annotations, k)
                # Annotation(o.Annotations, k)}

\* the keys the restore flow reads: those whose annotation can make a
\* difference to the VSR built from a VSB
ReadSet ==
    {k \in AnnotationKeys :
        \E a \in [AnnotationKeys -> {"", "x"}] :
            NewVSR([Annotations |-> a, Spec |-> ProgressVSB.Spec], "restore-1")
                # NewVSR([Annotations |-> [a EXCEPT ![k] = "y"], Spec |-> ProgressVSB.Spec],
                         "restore-1")}

\* the annotations of a VSB that were written by the backup flow
Written(vsb) ==
    [Annotations |-> [k \in DOMAIN vsb.Annotations \cap WriteSet |-> vsb.Annotations[k]],
     Spec |-> vsb.Spec]

\* C23: every annotation key the restore flow reads from a persisted VSB to
\* build a VSR is one of the keys the backup flow writes, and every key the
\* backup flow writes is read by the restore flow: the VSR a restore creates is
\* the one built from the written annotations alone, and the read set equals
\* the write set.
C23_ClosedWhitelist ==
    [][RestoreCreated =>
          /\ ReadSet = WriteSet
          /\ vsrStore'[bridge'.vsrKey] = NewVSR(Written(BridgeVSB), "restore-1")]_vars

\* a VSR was built from a persisted VSB that carries the five written
\* annotations and an unrelated one
C23_Witness ==
    /\ bridge.pc = "restored"
    /\ bridge.variant \in BridgeVariants
    /\ bridge.vsrKey \in DOMAIN vsrStore
    /\ ~bridge.vsb.HasStatus
    /\ DOMAIN bridge.vsb.meta.Annotations = AnnotationKeys
    /\ vsrStore[bridge.vsrKey].Spec.VolumeSnapshotClassName = "y"
    /\ vsrStore[bridge.vsrKey].Spec.ResticRepository = "x"


\* the step in which restore Execute returned
RestoreActed == bridge.pc \in {"backedUp", "persisted"} /\ bridge'.pc = "restored"

\* the field of the VSR that is read from annotation k
ReadField(vsr, k) ==
    CASE k = VolumeSnapshotMoverResticRepository -> vsr.Spec.ResticRepository
      [] k = VolumeSnapshotMoverSourcePVCName -> vsr.Spec.PVCName
      [] k = VolumeSnapshotMoverSourcePVCSize -> vsr.Spec.PVCSize
      [] k = VolumeSnapshotMoverSourcePVCStorageClass -> vsr.Spec.PVCStorageClassName
      [] k = VolumeSnapshotMoverVolumeSnapshotClass -> vsr.Spec.VolumeSnapshotClassName

\* the whitelisted annotations the VSB of the bridge lacks
MissingKeys == WhitelistKeys \ DOMAIN BridgeVSB.Annotations

\* C24: when a persisted VSB lacks some or all whitelisted annotations (or has
\* no annotation map), the restore flow reads each missing field as the empty
\* string and does not fail because of it: unless the conversion, the client
\* or the store fails, Execute returns no error and the VSR it created has ""
\* in every field whose annotation is missing and the annotation's value in
\* every other.
C24_ExtractToleratesMissing ==
    [][(RestoreActed /\ MissingKeys # {} /\ bridge'.fault = "none")
          => /\ bridge'.err = Nil
             /\ bridge'.vsrKey \in DOMAIN vsrStore'
             /\ \A k \in MissingKeys : ReadField(vsrStore'[bridge'.vsrKey], k) = ""
             /\ \A k \in WhitelistKeys \ MissingKeys :
                    ReadField(vsrStore'[bridge'.vsrKey], k) = BridgeVSB.Annotations[k]]_vars

\* restore Execute succeeded on a persisted VSB without an annotation map
C24_Witness ==
    /\ bridge.pc = "restored"
    /\ bridge.variant = "loaded"
    /\ ~bridge.vsb.meta.HasAnnotations
    /\ bridge.fault = "none"
    /\ bridge.err = Nil
    /\ bridge.operationID # <<>>
    /\ bridge.vsrKey \in DOMAIN vsrStore
    /\ vsrStore[bridge.vsrKey].Spec.PVCName = ""


\* ============================================================ delete action
MaxDeletes == 2

\* the backup names velero can pass to the delete item action
DeleteBackupNames == BackupNames \cup BlankNames

\* the VSBs in the cluster when backups are deleted: one of each backup
DeleteVSB(name) == NewVSB(ProgressVSC, Backup(name), ResticSecretName(Backup(name)))
DeleteStore ==
    Put(Put(EmptyStore, <<ProgressNamespace, VSBGenerateName \o <<"1">>>>, DeleteVSB("backup-1")),
        <<ProgressNamespace, VSBGenerateName \o <<"2">>>>, DeleteVSB("backup-2"))

\* VolumeSnapshotBackupDeleteItemAction.Execute, part_002:489-517, with what
\* it was given and what it returned kept in lastDelete
DeleteExecute(key, backupLabel, backupName, fail) ==
    LET out == DeleteItemAction(vsbStore, key, backupLabel, backupName, fail)
    IN  /\ lastDelete.calls < MaxDeletes
        /\ vsbStore' = out.store
        /\ lastDelete' = [calls |-> lastDelete.calls + 1, key |-> key,
                          backupLabel |-> backupLabel, backupName |-> backupName,
                          fail |-> fail, existed |-> key \in DOMAIN vsbStore,
                          err |-> out.err,
                          priorKey |-> lastDelete.key,
                          priorBackupName |-> lastDelete.backupName,
                          priorErr |-> lastDelete.err]
        /\ UNCHANGED <<classVars, bridge, flow, lastCancel, waitVars, dataMoverCase, vsrStore,
                       callers, invocations, overlapped, lastProgress>>

InitDelete ==
    /\ dataMoverCase = TRUE
    /\ vsbStore = DeleteStore
    /\ vsrStore = EmptyStore
    /\ callers = [c \in Callers |-> IdleCaller]
    /\ invocations = 0
    /\ overlapped = FALSE
    /\ lastProgress = NoProgress
    /\ lastCancel = NoCancel
    /\ datamoverTimeout = ""
    /\ wait = IdleWait
    /\ waited = NotWaited
    /\ bridge = NoBridge
    /\ lastDelete = NoDelete
    /\ flow = NoFlow
    /\ classStore = NoClasses
    /\ classExecs = [e \in Executors |-> IdleExec]

NextDelete ==
    /\ lastDelete.calls < MaxDeletes
    /\ \E key \in VSBKeys, backupLabel \in BackupNames \cup {""},
          backupName \in DeleteBackupNames, fail \in DeleteFailures :
           DeleteExecute(key, backupLabel, backupName, fail)

SpecDelete == InitDelete /\ [][NextDelete]_vars

\* the step in which the delete item action ran
DeleteCalled == lastDelete'.calls = lastDelete.calls + 1

\* the item carries the backup-name label of the backup being deleted
Owned(ld) == ld.backupLabel # "" /\ ld.backupName \notin BlankNames
             /\ ld.backupLabel = ld.backupName

\* C25: the delete action removes a VSB only when its backup-name label
\* matches the backup being deleted; for an item with no labels, a different
\* backup label, or a blank backup name, it returns success and leaves the
\* store unchanged.
C25_DeleteOnlyOwned ==
    [][DeleteCalled =>
          /\ vsbStore' # vsbStore =>
                 (Owned(lastDelete') /\ vsbStore' = Remove(vsbStore, lastDelete'.key))
          /\ (~Owned(lastDelete') /\ lastDelete'.fail # "convert") =>
                 (lastDelete'.err = Nil /\ vsbStore' = vsbStore)]_vars

\* the delete action ran for backup-2 on the stored VSB of backup-1, which is
\* still there, and returned success
C25_Witness ==
    /\ lastDelete.calls > 0
    /\ lastDelete.key = <<ProgressNamespace, VSBGenerateName \o <<"1">>>>
    /\ lastDelete.backupLabel = "backup-1"
    /\ lastDelete.backupName = "backup-2"
    /\ lastDelete.fail = "none"
    /\ lastDelete.err = Nil
    /\ lastDelete.key \in DOMAIN vsbStore
    /\ vsbStore = DeleteStore

\* C26: a delete of an owned VSB that the store reports as not found returns
\* success, while any other store error is returned to the caller; running the
\* delete action twice yields success both times and the object absent.
C26_DeleteIdempotent ==
    [][(DeleteCalled /\ Owned(lastDelete')) =>
          /\ lastDelete'.fail = "none" =>
                 (lastDelete'.err = Nil /\ lastDelete'.key \notin DOMAIN vsbStore')
          /\ lastDelete'.fail \in {"client", "delete"} =>
                 (lastDelete'.err \notin {Nil, "NotFound"} /\ vsbStore' = vsbStore)]_vars

\* the delete action ran twice for the same owned VSB: the first call removed
\* it, the second found it gone, both returned success
C26_Witness ==
    /\ lastDelete.calls = 2
    /\ lastDelete.key = <<ProgressNamespace, VSBGenerateName \o <<"1">>>>
    /\ lastDelete.priorKey = lastDelete.key
    /\ lastDelete.backupLabel = "backup-1"
    /\ lastDelete.backupName = "backup-1"
    /\ lastDelete.priorBackupName = "backup-1"
    /\ lastDelete.priorErr = Nil
    /\ ~lastDelete.existed
    /\ lastDelete.fail = "none"
    /\ lastDelete.err = Nil
    /\ lastDelete.key \notin DOMAIN vsbStore


\* ------------------------------------------------- stale requests (C27, C28)
\* caller c ran Execute in data-mover mode on a VolumeSnapshotContent whose
\* backup-name label is missing or names another backup
StaleVSC(c) ==
    /\ dataMoverCase
    /\ callers[c].pc # "idle"
    /\ callers[c].vsc.BackupLabel # callers[c].backup.Name

\* C27: in data-mover mode, backup Execute on a VolumeSnapshotContent whose
\* backup-name label differs from the current backup's name (or is missing)
\* creates no VSB, performs no wait, and returns an empty operation handle with
\* no error: the invocation returns at once without reaching the clients, the
\* wait or the create, whatever the environment would have failed on.  (An
\* item that cannot be converted to a VolumeSnapshotContent has no label to
\* compare and is answered with the conversion error.)
C27_StaleVSCIsSkipped ==
    \A c \in Callers :
        StaleVSC(c) =>
            /\ callers[c].pc = "done"
            /\ callers[c].key = NoKey
            /\ callers[c].createAnswer = Nil
            /\ callers[c].result.operationID = <<>>
            /\ callers[c].result.itemsToUpdate = {}
            /\ \/ callers[c].result.err = "ConvertError"
               \/ callers[c].result.err = Nil /\ callers[c].result.item = "input"

\* Execute for backup-1 returned the item, with no handle and no error, for a
\* VolumeSnapshotContent labelled with backup-2, and no VSB was created
C27_Witness ==
    \E c \in Callers :
        /\ StaleVSC(c)
        /\ callers[c].pc = "done"
        /\ callers[c].vsc.BackupLabel = "backup-2"
        /\ callers[c].backup.Name = "backup-1"
        /\ callers[c].result.err = Nil
        /\ callers[c].result.item = "input"
        /\ callers[c].result.operationID = <<>>
        /\ vsbStore = EmptyStore


\* the VSBs existing for this VolumeSnapshotContent all carry the backup-name
\* label of another backup, and there is at least one
OnlyStaleVSBs(store, snapCont, backup) ==
    LET listed == {k \in DOMAIN store : store[k].Labels.vsc = snapCont.Name}
    IN  /\ listed # {}
        /\ \A k \in listed : store[k].Labels.backup # backup.Name

\* caller c entered Execute in this step
ExecuteBegun(c) ==
    /\ invocations' = invocations + 1
    /\ callers[c].pc \in {"idle", "done"}
    /\ callers'[c].pc \in {"create", "done"}
    /\ \A d \in Callers \ {c} : callers'[d] = callers[d]

MaxVSRs == 2

\* the configured timeouts the flow is explored with
FlowTimeoutValues == {"5s", "10s", "bad"}

\* what a VSR of the restore looks like in the cluster: gone, in progress,
\* completed with its snapshot handle, or failed
FlowStatuses ==
    {NotWaited,
     [NotWaited EXCEPT !.exists = TRUE, !.HasStatus = TRUE, !.Phase = "InProgress"],
     [NotWaited EXCEPT !.exists = TRUE, !.HasStatus = TRUE, !.Phase = PhaseCompleted,
                       !.SnapshotHandle = "handle"],
     [NotWaited EXCEPT !.exists = TRUE, !.HasStatus = TRUE, !.Phase = PhaseFailed]}

\* the lists snapMoverClient.List can return for the restore: the cluster's
\* view of each VSR, in list order
FlowLists == UNION {[1..n -> FlowStatuses \ {NotWaited}] : n \in 0..MaxVSRs}

\* the goroutine eg.Go starts for one VSR, about to call wait.PollImmediate
FlowWait(obj, timeout) ==
    [pc |-> "poll", obj |-> obj, timeout |-> timeout, elapsed |-> 0, result |-> "none"]

\* the errgroup has recorded no error
NoFirstErr == [index |-> 0, err |-> Nil]

\* WaitForDataMoverRestoreToComplete, part_004:761-791, up to the start of
\* the goroutines in CheckIfVolumeSnapshotRestoresAreComplete, part_004:706-727
FlowBegin(restoreName, listed, clientOK, listFault, checkClientOK) ==
    LET t == ParseDuration(IF datamoverTimeout # "" THEN datamoverTimeout ELSE "10m")
        returned(result) == [NoFlow EXCEPT !.pc = "returned", !.restore = restoreName,
                                           !.result = result]
    IN  /\ flow.pc = "idle"
        /\ flow' = IF ~clientOK THEN returned("ClientError")
                   ELSE IF listFault THEN returned("ListError")
                   ELSE IF Len(listed) = 0 THEN returned("ok")
                   ELSE IF t.err # Nil THEN returned("ParseError")
                   ELSE IF ~checkClientOK THEN returned("ClientError")
                   ELSE [pc |-> "waiting", restore |-> restoreName,
                         waits |-> [i \in 1..Len(listed) |-> FlowWait(listed[i], t.d)],
                         firstErr |-> NoFirstErr, result |-> "none"]
        /\ UNCHANGED <<classVars, bridge, lastDelete, lastCancel, waitVars, dataMoverCase, vsbStore,
                       vsrStore, callers, invocations, overlapped, lastProgress>>

\* one run of the condition func in goroutine i and what wait.PollImmediate
\* does with the answer; the goroutine returns when the wait ends
FlowPolled(w, fault) ==
    LET c == VSRCompleteCondition(w.obj, fault)
    IN  IF c.outcome = "ready" THEN [w EXCEPT !.pc = "done", !.result = "ok"]
        ELSE IF c.outcome # "wait" THEN [w EXCEPT !.pc = "done", !.result = c.outcome]
        ELSE IF w.elapsed >= w.timeout THEN [w EXCEPT !.pc = "done", !.result = "Timeout"]
        ELSE [w EXCEPT !.pc = "sleep"]

\* the first non-nil error a goroutine returns is the one the errgroup keeps
FirstErr(firstErr, i, w) ==
    IF w.pc = "done" /\ w.result # "ok" /\ firstErr.err = Nil
    THEN [index |-> i, err |-> w.result]
    ELSE firstErr

\* a poll whose error also ends the waits of the other goroutines, as it would
\* if they polled under the context of the errgroup
FlowWaitPoll_CancelOthers(i, fault) ==
    /\ flow.pc = "waiting"
    /\ i \in DOMAIN flow.waits
    /\ flow.waits[i].pc = "poll"
    /\ LET w == FlowPolled(flow.waits[i], fault)
           failed == w.pc = "done" /\ w.result # "ok"
       IN  flow' = [flow EXCEPT
               !.waits = [j \in DOMAIN flow.waits |->
                             IF j = i THEN w
                             ELSE IF failed /\ flow.waits[j].pc # "done"
                             THEN [flow.waits[j] EXCEPT !.pc = "done", !.result = "Canceled"]
                             ELSE flow.waits[j]],
               !.firstErr = FirstErr(flow.firstErr, i, w)]
    /\ UNCHANGED <<classVars, bridge, lastDelete, lastCancel, waitVars, dataMoverCase, vsbStore,
                   vsrStore, callers, invocations, overlapped, lastProgress>>

\* goroutine i polls, part_004:729-756: the Get uses the context passed in,
\* not the one of the errgroup, which is discarded at part_004:707
FlowWaitPoll(i, fault) ==
    /\ flow.pc = "waiting"
    /\ i \in DOMAIN flow.waits
    /\ flow.waits[i].pc = "poll"
    /\ LET w == FlowPolled(flow.waits[i], fault)
       IN  flow' = [flow EXCEPT !.waits[i] = w,
                                !.firstErr = FirstErr(flow.firstErr, i, w)]
    /\ UNCHANGED <<classVars, bridge, lastDelete, lastCancel, waitVars, dataMoverCase, vsbStore,
                   vsrStore, callers, invocations, overlapped, lastProgress>>

\* goroutine i sleeps until its next tick or its timeout
FlowWaitSleep(i) ==
    /\ flow.pc = "waiting"
    /\ i \in DOMAIN flow.waits
    /\ flow.waits[i].pc = "sleep"
    /\ flow' = [flow EXCEPT !.waits[i].pc = "poll",
                            !.waits[i].elapsed = Min(@ + Interval, flow.waits[i].timeout)]
    /\ UNCHANGED <<classVars, bridge, lastDelete, lastCancel, waitVars, dataMoverCase, vsbStore,
                   vsrStore, callers, invocations, overlapped, lastProgress>>

\* the data mover writes the status of VSR i, or the VSR is deleted
FlowControllerSet(i, obj) ==
    /\ flow.pc = "waiting"
    /\ i \in DOMAIN flow.waits
    /\ flow.waits[i].pc # "done"
    /\ flow.waits[i].obj # obj
    /\ flow' = [flow EXCEPT !.waits[i].obj = obj]
    /\ UNCHANGED <<classVars, bridge, lastDelete, lastCancel, waitVars, dataMoverCase, vsbStore,
                   vsrStore, callers, invocations, overlapped, lastProgress>>

\* eg.Wait() returns once every goroutine has returned, part_004:758, and
\* WaitForDataMoverRestoreToComplete returns its error, part_004:783-790
FlowReturn ==
    /\ flow.pc = "waiting"
    /\ \A i \in DOMAIN flow.waits : flow.waits[i].pc = "done"
    /\ flow' = [flow EXCEPT !.pc = "returned",
                            !.result = IF flow.firstErr.err # Nil THEN flow.firstErr.err
                                       ELSE "ok"]
    /\ UNCHANGED <<classVars, bridge, lastDelete, lastCancel, waitVars, dataMoverCase, vsbStore,
                   vsrStore, callers, invocations, overlapped, lastProgress>>

InitFlow ==
    /\ dataMoverCase = TRUE
    /\ vsbStore = EmptyStore
    /\ vsrStore = EmptyStore
    /\ callers = [c \in Callers |-> IdleCaller]
    /\ invocations = 0
    /\ overlapped = FALSE
    /\ lastProgress = NoProgress
    /\ lastCancel = NoCancel
    /\ datamoverTimeout \in FlowTimeoutValues
    /\ wait = IdleWait
    /\ waited = NotWaited
    /\ bridge = NoBridge
    /\ lastDelete = NoDelete
    /\ flow = NoFlow
    /\ classStore = NoClasses
    /\ classExecs = [e \in Executors |-> IdleExec]

NextFlow ==
    \/ /\ flow.pc = "idle"
       /\ \E restoreName \in RestoreNames, listed \in FlowLists, clientOK \in BOOLEAN,
             listFault \in BOOLEAN, checkClientOK \in BOOLEAN :
              FlowBegin(restoreName, listed, clientOK, listFault, checkClientOK)
    \/ /\ flow.pc = "waiting"
       /\ \E i \in 1..MaxVSRs, fault \in {"none", "fetch"} : FlowWaitPoll(i, fault)
    \/ /\ flow.pc = "waiting"
       /\ \E i \in 1..MaxVSRs : FlowWaitSleep(i)
    \/ /\ flow.pc = "waiting"
       /\ \E i \in 1..MaxVSRs, obj \in FlowStatuses : FlowControllerSet(i, obj)
    \/ FlowReturn

SpecFlow == InitFlow /\ [][NextFlow]_vars


\* ------------------------------------------------ concurrent waits (C29)
\* goroutine i of the flow ended in this step
WaitEnded(i) ==
    /\ flow.pc = "waiting"
    /\ i \in DOMAIN flow.waits
    /\ flow.waits[i].pc # "done"
    /\ flow'.waits[i].pc = "done"

\* a wait of the flow ended with an error
Failed(w) == w.pc = "done" /\ w.result # "ok"

\* C29: in the flow that waits for all VSRs of one restore there is one wait
\* per request, running concurrently; a wait that fails early neither cancels
\* nor shortens any other wait, the flow returns only after every wait has
\* ended (success, failure or timeout), and its result is the first error that
\* occurred or success if none did.
C29_ConcurrentWaitsIndependent ==
    /\ [][\A i \in 1..MaxVSRs :
             WaitEnded(i) =>
                 \* the wait ends for a reason of its own: its VSR completed or
                 \* failed, its fetch failed, or its own timeout was reached
                 /\ flow'.waits[i].result \in {"ok", "TerminalFailure", "FetchError", "Timeout"}
                 /\ flow'.waits[i].result = "ok" =>
                        flow.waits[i].obj.Phase = PhaseCompleted
                 /\ flow'.waits[i].result = "TerminalFailure" =>
                        flow.waits[i].obj.Phase = PhaseFailed
                 /\ flow'.waits[i].result = "Timeout" =>
                        flow.waits[i].elapsed = flow.waits[i].timeout
                 \* and it leaves every other wait as it is
                 /\ \A j \in DOMAIN flow.waits \ {i} : flow'.waits[j] = flow.waits[j]
                 \* the error kept is the first one
                 /\ flow'.firstErr =
                        IF Failed(flow'.waits[i])
                           /\ \A j \in DOMAIN flow.waits : ~Failed(flow.waits[j])
                        THEN [index |-> i, err |-> flow'.waits[i].result]
                        ELSE flow.firstErr]_vars
    /\ [](flow.pc = "returned" /\ flow.waits # <<>> =>
             /\ \A i \in DOMAIN flow.waits : flow.waits[i].pc = "done"
             /\ flow.result = IF \E i \in DOMAIN flow.waits : Failed(flow.waits[i])
                              THEN flow.firstErr.err ELSE "ok"
             /\ flow.firstErr.err # Nil =>
                    /\ flow.firstErr.index \in DOMAIN flow.waits
                    /\ flow.waits[flow.firstErr.index].result = flow.firstErr.err)
    /\ [](flow.pc = "waiting" => Len(flow.waits) \in 1..MaxVSRs)

\* the flow returned the failure of the second VSR, which came first, after
\* the first VSR's wait had run on to its own timeout
C29_Witness ==
    /\ flow.pc = "returned"
    /\ Len(flow.waits) = 2
    /\ flow.waits[2].result = "TerminalFailure"
    /\ flow.waits[2].elapsed = 0
    /\ flow.waits[1].result = "Timeout"
    /\ flow.waits[1].elapsed = flow.waits[1].timeout
    /\ flow.waits[1].timeout = 10
    /\ flow.firstErr = [index |-> 2, err |-> "TerminalFailure"]
    /\ flow.result = "TerminalFailure"


\* ============================================== the core and the stores (C30)
\* Every operation of the core beside the worker and the delete action, over
\* the stores that Execute fills and the worker writes.  The operations share
\* nothing but the two stores, so each is started while the others are at
\* rest; Execute and the worker run at any time.
ProgressIdle == lastProgress = NoProgress
CancelIdle == lastCancel = NoCancel
WaitIdle == wait = IdleWait /\ waited = NotWaited
BridgeIdle == bridge = NoBridge
DeleteIdle == lastDelete = NoDelete
FlowIdle == flow = NoFlow
CoreIdle == ProgressIdle /\ CancelIdle /\ WaitIdle /\ BridgeIdle /\ DeleteIdle /\ FlowIdle

\* the handles Progress and Cancel are called with: those of the keys the
\* stores can hold, and the empty one
CoreHandles == {<<>>} \cup {OperationID(k) : k \in VSBKeys \cup VSRKeys}

\* the status snapshots the VSB backup item action meets: none and a full one
CoreSnapshots ==
    {ZeroSnapshot,
     [ResticRepository |-> "x",
      SourcePVCData |-> [Name |-> "x", Size |-> "y", StorageClassName |-> "x"],
      VolumeSnapshotClassName |-> "y"]}

\* what the object of a wait looks like in the cluster: absent, just created,
\* or as the wait wants it
CoreWaited(kind) ==
    {NotWaited, [NotWaited EXCEPT !.exists = TRUE]} \cup
    {obj \in WaitedStatuses(kind) : obj.exists /\ Condition(kind, obj, "none").outcome = "ready"}

\* the Execute invocations that fill the store of VSBs
CoreInvocations == 1

\* a VSR left in the cluster by an earlier restore
InitCore ==
    /\ dataMoverCase = TRUE
    /\ vsbStore = EmptyStore
    /\ vsrStore = Put(EmptyStore, ProgressVSRKey, ProgressVSR)
    /\ callers = [c \in Callers |-> IdleCaller]
    /\ invocations = 0
    /\ overlapped = FALSE
    /\ lastProgress = NoProgress
    /\ lastCancel = NoCancel
    /\ datamoverTimeout = "5s"
    /\ wait = IdleWait
    /\ waited = NotWaited
    /\ bridge = NoBridge
    /\ lastDelete = NoDelete
    /\ flow = NoFlow
    /\ classStore = NoClasses
    /\ classExecs = [e \in Executors |-> IdleExec]

NextCore ==
    \* backup Execute, one pipeline worker
    \/ /\ invocations < CoreInvocations
       /\ \E fail \in {"none", "wait"} :
              ExecuteBegin(1, ProgressVSC, Backup("backup-1"), fail)
    \/ \E suffix \in Suffixes : ExecuteCreate(1, TRUE, suffix, FALSE)
    \/ \E fault \in BOOLEAN : ExecuteReadBack(1, fault)
    \* the external worker
    \/ \E k \in DOMAIN vsbStore : WorkerAdvance(k, PhaseCompleted)
    \/ \E k \in DOMAIN vsrStore : WorkerAdvanceVSR(k, PhaseCompleted)
    \* the delete item action
    \/ /\ CoreIdle
       /\ \E key \in VSBKeys, backupName \in BackupNames, fail \in {"none", "delete"} :
              DeleteExecute(key, "backup-1", backupName, fail)
    \* Progress
    \/ /\ CoreIdle
       /\ \E h \in CoreHandles, fault \in ProgressFaults : BackupProgress(h, fault)
    \/ /\ CoreIdle
       /\ \E h \in CoreHandles, fault \in ProgressFaults : BackupProgress_2(h, fault)
    \/ /\ CoreIdle
       /\ \E h \in CoreHandles, fault \in ProgressFaults : RestoreProgress(h, fault)
    \/ ProgressReturn
    \* Cancel
    \/ /\ CoreIdle
       /\ \E h \in CoreHandles : BackupCancel(h)
    \/ /\ CoreIdle
       /\ \E h \in CoreHandles : RestoreCancel(h)
    \* the waits for a VSB and for VSRs
    \/ /\ CoreIdle
       /\ \E kind \in {"vsb", "vsrList", "vsrComplete"}, clientOK \in BOOLEAN :
              \E obj \in CoreWaited(kind) : WaitBegin(kind, clientOK, obj)
    \/ \E fault \in WaitFaults : WaitPoll(fault)
    \/ WaitSleep
    \/ WaitReturn
    \/ /\ wait.pc \in {"poll", "sleep"}
       /\ \E obj \in CoreWaited(wait.kind) : ControllerSet(obj)
    \* the flow waiting for the VSRs of a restore
    \/ /\ CoreIdle
       /\ \E listed \in {l \in FlowLists : Len(l) <= 1}, clientOK \in BOOLEAN :
              FlowBegin("restore-1", listed, clientOK, FALSE, TRUE)
    \/ /\ flow.pc = "waiting"
       /\ \E fault \in {"none", "fetch"} : FlowWaitPoll(1, fault)
    \/ /\ flow.pc = "waiting"
       /\ FlowWaitSleep(1)
    \/ /\ flow.pc = "waiting"
       /\ \E obj \in FlowStatuses : FlowControllerSet(1, obj)
    \/ FlowReturn
    \* the status bridge
    \/ /\ CoreIdle
       /\ \E status \in CoreSnapshots, variant \in BridgeVariants, fail \in {"none", "wait"} :
              VolumeSnapshotBackupBackupItemAction_Execute(NilMeta, status, variant, fail)
    \/ VeleroPersist
    \/ /\ bridge.pc \in {"backedUp", "persisted"}
       /\ \E suffix \in Suffixes, variant \in RestoreVariants, fail \in {"none", "get"} :
              RestoreItemAction_Execute("restore-1", suffix, FALSE, variant, fail)

SpecCore == InitCore /\ [][NextCore]_vars

\* a step of the core itself: some operation of the plugin moved
CoreStep ==
    ~ UNCHANGED <<classVars, callers, invocations, lastProgress, lastCancel, wait, bridge, lastDelete, flow>>

\* the delete item action ran for key k in this step
DeletedBy(k) ==
    /\ lastDelete'.calls = lastDelete.calls + 1
    /\ lastDelete'.key = k
    /\ lastDelete'.err = Nil

\* a request in a store is as it was, or only its status changed in a step
\* that is not one of the core
OnlyWorkerWrites(store, storeAfter) ==
    \A k \in DOMAIN store \cap DOMAIN storeAfter :
        /\ storeAfter[k].Labels = store[k].Labels
        /\ storeAfter[k].Spec = store[k].Spec
        /\ storeAfter[k].Status # store[k].Status => ~CoreStep

\* C30: no operation of the core (Execute, Progress, Cancel, the waits, the
\* status bridge) ever changes the status, spec or labels of a transfer request
\* already in the store: after creation a request's stored status is changed
\* only by the external worker, and the core's only other effect on it is
\* deletion by the delete action.
C30_CoreNeverWritesRequests ==
    [][/\ OnlyWorkerWrites(vsbStore, vsbStore')
       /\ OnlyWorkerWrites(vsrStore, vsrStore')
       /\ \A k \in DOMAIN vsbStore \ DOMAIN vsbStore' : DeletedBy(k)
       /\ DOMAIN vsrStore \subseteq DOMAIN vsrStore']_vars

\* Progress read a VSB whose status the worker had completed, and the VSB is
\* in the store as Execute created it but for that status
C30_Witness ==
    /\ lastProgress.variant # "none"
    /\ lastProgress.result.kind = "ok"
    /\ lastProgress.result.fetched.Phase = PhaseCompleted
    /\ \E c \in Callers :
           /\ Succeeded(c)
           /\ lastProgress.operationID = callers[c].result.operationID
           /\ callers[c].key \in DOMAIN vsbStore
           /\ vsbStore[callers[c].key] =
                  [NewVSB(callers[c].vsc, callers[c].backup, ResticSecretName(callers[c].backup))
                       EXCEPT !.Status = [Phase |-> PhaseCompleted, BatchingStatus |-> ""]]


\* ================================== backup Execute, earlier variant (C31)
\* util.VSBHasVSBackupName, called at part_002:306, is not part of the
\* sources; by the comment above the call it compares the backup name on the
\* label of the VolumeSnapshotContent with the current backup name
VSBHasVSBackupName(backup, snapCont) == snapCont.BackupLabel = backup.Name

\* util.DoesVolumeSnapshotBackupExistForVSC, called at part_002:357, is not
\* part of the sources: it can answer that no VSB exists, that one exists, or
\* fail
LookupAnswers == {"absent", "exists", "error"}

\* the step of the environment that fails first in the earlier variant
ExecuteFailures_2 == {"none", "convert", "clients", "wait", "cred"}

\* the VSB crafted by the earlier variant, part_002:329-346: labelled with
\* the backup name only
NewVSB_2(snapCont, backup, resticSecretName) ==
    [NewVSB(snapCont, backup, resticSecretName) EXCEPT !.Labels.vsc = ""]

\* Execute of the earlier variant from entry up to the existence lookup,
\* part_002:291-353
ExecuteUntilLookup_2(snapCont, backup, fail, lookup) ==
    IF fail = "convert"
    THEN [next |-> "return", result |-> ExecuteError("ConvertError", Nil)]
    ELSE IF ~DataMoverCase
    THEN [next |-> "return", result |-> ExecuteResult("input", <<>>, {}, Nil, Nil)]
    ELSE IF ~VSBHasVSBackupName(backup, snapCont)
    THEN [next |-> "return", result |-> ExecuteResult("nil", <<>>, {}, Nil, Nil)]
    ELSE IF fail = "clients"
    THEN [next |-> "return", result |-> ExecuteError("ClientError", Nil)]
    ELSE IF fail = "wait"
    THEN [next |-> "return", result |-> ExecuteError("WaitError", Nil)]
    ELSE IF fail = "cred"
    THEN [next |-> "return", result |-> ExecuteError("SecretError", Nil)]
    ELSE IF lookup = "error"
    THEN [next |-> "return", result |-> ExecuteError("LookupError", "StoreError")]
    ELSE IF lookup = "exists"
    THEN [next |-> "return", result |-> ExecuteResult("input", <<>>, {NoKey}, Nil, Nil)]
    ELSE [next |-> "create", result |-> NoResult]

\* a pipeline worker enters Execute of the earlier variant
ExecuteBegin_2(c, snapCont, backup, fail, lookup) ==
    /\ callers[c].pc \in {"idle", "done"}
    /\ invocations < MaxInvocations
    /\ invocations' = invocations + 1
    /\ overlapped' = (overlapped \/ \E d \in Callers \ {c} : InFlight(d))
    /\ LET r == ExecuteUntilLookup_2(snapCont, backup, fail, lookup)
       IN  callers' = [callers EXCEPT ![c] =
               [pc |-> IF r.next = "create" THEN "create" ELSE "done",
                vsc |-> snapCont, backup |-> backup, key |-> NoKey,
                createAnswer |-> Nil, result |-> r.result, fail |-> fail]]
    /\ UNCHANGED <<classVars, itemVars, lastCancel, waitVars, dataMoverCase, vsbStore, vsrStore, lastProgress>>

\* vsbClient.Create of the earlier variant, part_002:356-365
ExecuteCreate_2(c, clientOK, suffix, fault) ==
    /\ callers[c].pc = "create"
    /\ LET snapCont == callers[c].vsc
           backup == callers[c].backup
           key == <<snapCont.RefNamespace, VSBGenerateName \o suffix>>
           vsb == NewVSB_2(snapCont, backup, ResticSecretName(backup))
       IN  IF ~clientOK
           THEN /\ callers' = [callers EXCEPT ![c].pc = "done",
                                   ![c].result = ExecuteError("ClientError", Nil)]
                /\ vsbStore' = vsbStore
           ELSE IF fault \/ key \in DOMAIN vsbStore
           THEN /\ callers' = [callers EXCEPT ![c].pc = "done",
                                   ![c].createAnswer =
                                       IF fault THEN "StoreError" ELSE "AlreadyExists",
                                   ![c].result =
                                       ExecuteError("CreateError",
                                           IF fault THEN "StoreError" ELSE "AlreadyExists")]
                /\ vsbStore' = vsbStore
           ELSE /\ vsbStore' = Put(vsbStore, key, vsb)
                /\ callers' = [callers EXCEPT ![c].pc = "readback", ![c].key = key,
                                   ![c].createAnswer = "Created"]
    /\ UNCHANGED <<classVars, itemVars, lastCancel, waitVars, dataMoverCase, vsrStore, invocations, overlapped, lastProgress>>

\* the read-back and the return are those of the current variant,
\* part_002:369-392
NextEarlier ==
    \/ \E c \in Callers, snapCont \in VSCs, backup \in Backups,
          fail \in ExecuteFailures_2, lookup \in LookupAnswers :
           ExecuteBegin_2(c, snapCont, backup, fail, lookup)
    \/ \E c \in Callers, clientOK \in BOOLEAN, suffix \in Suffixes, fault \in BOOLEAN :
           ExecuteCreate_2(c, clientOK, suffix, fault)
    \/ \E c \in Callers, fault \in BOOLEAN : ExecuteReadBack(c, fault)

SpecEarlier == Init /\ [][NextEarlier]_vars

\* C31: backup Execute on a VolumeSnapshotContent never silently drops the
\* item: in every mode and on every path it either returns a non-nil error or
\* returns the input item itself, unmodified.
C31_ItemNeverDropped ==
    \A c \in Callers :
        callers[c].pc = "done" =>
            (callers[c].result.err # Nil \/ callers[c].result.item = "input")


\* ================================== repeated restore Execute (C32)
\* velero hands the same persisted VSB to the restore item action once more;
\* what the invocation just ended has returned is kept in bridge.restores,
\* bridge.requests and bridge.handles
VeleroRestoreAgain ==
    /\ bridge.pc = "restored"
    /\ bridge' = [bridge EXCEPT
           !.pc = "persisted",
           !.restores = IF bridge.err = Nil THEN @ + 1 ELSE @,
           !.requests = IF bridge.err = Nil THEN @ \cup {bridge.vsrKey} ELSE @,
           !.handles = IF bridge.err = Nil /\ bridge.operationID # <<>>
                       THEN @ \cup {bridge.operationID} ELSE @]
    /\ UNCHANGED <<classVars, lastDelete, flow, lastCancel, waitVars, dataMoverCase, vsbStore,
                   vsrStore, callers, invocations, overlapped, lastProgress>>

\* the VSB items restored repeatedly: without annotations, and annotated in full
RestoreMetas == {m \in ItemMetas : m.HasAnnotations => DOMAIN m.Annotations = WhitelistKeys}

NextRestore ==
    \/ /\ bridge.pc = "none"
       /\ \E meta \in RestoreMetas : VeleroLoad(meta)
    \/ /\ bridge.pc \in {"backedUp", "persisted"}
       /\ \E restoreName \in RestoreNames, suffix \in Suffixes, mapped \in BOOLEAN,
             variant \in RestoreVariants, fail \in RestoreFailures :
              RestoreItemAction_Execute(restoreName, suffix, mapped, variant, fail)
    \/ VeleroRestoreAgain

SpecRestore == InitBridge /\ [][NextRestore]_vars

\* a restore Execute returns without error
RestoreReturned ==
    /\ bridge.pc \in {"backedUp", "persisted"}
    /\ bridge'.pc = "restored"
    /\ bridge'.err = Nil

\* C32: the restore Execute performs no existence lookup, so every successful
\* invocation for the same persisted VSB under the same restore creates one
\* more VSR and returns a new handle, distinct from every handle returned
\* before; n successful invocations leave n requests, all with the same
\* ownership labels.
C32_EveryRestoreCreatesOneMore ==
    /\ [][RestoreReturned =>
            /\ bridge'.vsrKey \notin DOMAIN vsrStore
            /\ DOMAIN vsrStore' = DOMAIN vsrStore \cup {bridge'.vsrKey}
            /\ bridge'.vsrKey \notin bridge.requests
            /\ bridge'.operationID # <<>> => bridge'.operationID \notin bridge.handles
            /\ \A k \in bridge.requests :
                   vsrStore'[k].Labels = vsrStore'[bridge'.vsrKey].Labels]_vars
    /\ [](/\ Cardinality(bridge.requests) = bridge.restores
          /\ bridge.requests \subseteq DOMAIN vsrStore
          /\ Cardinality(bridge.handles) <= bridge.restores
          /\ \A k \in bridge.requests :
                 vsrStore[k].Labels = [restore |-> "restore-1",
                                       pvc |-> Annotation(BridgeVSB.Annotations,
                                                   VolumeSnapshotMoverSourcePVCName)])

\* a second invocation has succeeded after a first one, both returning handles
C32_Witness ==
    /\ bridge.pc = "restored"
    /\ bridge.err = Nil
    /\ bridge.restores >= 1
    /\ bridge.handles # {}
    /\ bridge.operationID # <<>>
    /\ bridge.operationID \notin bridge.handles
    /\ Cardinality(DOMAIN vsrStore) >= 2


\* ================================== progress description (C33)
\* the object a Progress call with a nil error has fetched
ProgressObject(lp) ==
    IF lp.variant = "restore" THEN vsrStore[ProgressResultKey(lp.operationID)]
    ELSE vsbStore[ProgressResultKey(lp.operationID)]

\* C33: Progress sets the description to
\* "Phase: <Phase> BatchingStatus: <BatchingStatus>" of the fetched object
\* exactly when both its Phase and its BatchingStatus are non-empty, and
\* leaves the description empty otherwise.
C33_DescriptionIffBothSet ==
    [][ProgressCalled =>
        LET lp == lastProgress'
        IN  IF lp.result.kind = "ok"
            THEN LET st == ProgressObject(lp).Status
                 IN  lp.result.Description =
                         IF st.Phase # "" /\ st.BatchingStatus # ""
                         THEN <<"Phase: ", st.Phase, " BatchingStatus: ", st.BatchingStatus>>
                         ELSE <<>>
            ELSE lp.result.Description = <<>>]_vars


\* ================================== gated creation (C34)
\* the steps of backup Execute that precede the creation and can fail
GateFailures == {"clients", "wait", "cred", "moverClient", "list"}

\* invocation c ran in data-mover mode on an item that converts
Gated(c) ==
    /\ dataMoverCase
    /\ callers[c].pc # "idle"
    /\ callers[c].fail # "convert"

\* invocation c has not called Create
NothingCreated(c) == callers[c].key = NoKey /\ callers[c].createAnswer = Nil

\* a step of caller c that creates a VSB
CreatedBy(c) ==
    /\ callers[c].pc = "create"
    /\ callers'[c].pc = "readback"
    /\ DOMAIN vsbStore' = DOMAIN vsbStore \cup {callers'[c].key}

BackupHandleReturned(c) ==
    /\ callers[c].pc = "readback"
    /\ callers'[c].pc = "done"
    /\ callers'[c].result.operationID # <<>>

\* C35: every non-empty operation handle returned by backup or restore Execute
\* names an object that exists in the store at the moment of return, created
\* by that invocation, and that carries the ownership labels of the invoking
\* operation: backup name and source VolumeSnapshotContent name, or restore
\* name and source PVC name.
C35_HandleNamesOwnedObject ==
    [][/\ \A c \in Callers :
              BackupHandleReturned(c) =>
                  \E k \in DOMAIN vsbStore' :
                      /\ OperationID(k) = callers'[c].result.operationID
                      /\ k = callers[c].key
                      /\ vsbStore'[k].Labels = [backup |-> callers[c].backup.Name,
                                                vsc |-> callers[c].vsc.Name]
       /\ (RestoreReturned /\ bridge'.operationID # <<>>) =>
              \E k \in DOMAIN vsrStore' :
                  /\ OperationID(k) = bridge'.operationID
                  /\ k \notin DOMAIN vsrStore
                  /\ vsrStore'[k].Labels =
                         [restore |-> "restore-1",
                          pvc |-> Annotation(BridgeVSB.Annotations,
                                      VolumeSnapshotMoverSourcePVCName)]]_vars


\* ================================== failure check before readiness (C36)
\* a poll of the VSB status wait whose fetch succeeds
VSBPolled ==
    /\ PollStep
    /\ wait.kind = "vsb"
    /\ wait'.lastFault = "none"
    /\ waited.exists

\* C36: in the wait for the status data of a VSB the check for the terminal
\* failure precedes the readiness check: a VSB whose five status fields are
\* all filled but whose Reconciled condition is False with reason Error makes
\* the wait fail, not succeed; and a VSB with no conditions at all is never a
\* failure nor a success, only a reason to keep waiting, whatever its status
\* fields hold.
C36_FailureCheckedBeforeReadiness ==
    [][VSBPolled =>
        /\ (waited.Conditions = "ReconciledFalseError" /\ waited.Data = "full") =>
               (wait'.pc = "done" /\ wait'.result = "TerminalFailure")
        /\ waited.Conditions = "none" =>
               /\ wait'.lastOutcome = "wait"
               /\ wait'.result \in {"none", "Timeout"}
               /\ wait'.result = "none" => wait'.pc = "sleep"]_vars

\* the wait failed on its first fetch of a VSB with all five fields filled
\* and the condition Reconciled=False, reason Error
C36_Witness ==
    /\ wait.kind = "vsb"
    /\ wait.result = "TerminalFailure"
    /\ wait.fetches = 1
    /\ waited.Data = "full"
    /\ waited.Conditions = "ReconciledFalseError"


\* ================================== complete annotations or an error (C37)
\* the backup item action for a VSB returns in this step
BackupReturned == bridge.pc = "none" /\ bridge'.pc \in {"backedUp", "failed"}

ClassFailures == {"none", "convert", "wait", "unstructured", "clients"}

\* the VSB backup item action from entry up to the Create of the class,
\* part_001:37-84
VSBBackupExecuteBegin(e, backupName, fail) ==
    /\ classExecs[e].pc \in {"idle", "done"}
    /\ classExecs' = [classExecs EXCEPT ![e] =
           [pc |-> IF fail = "none" THEN "create" ELSE "done",
            backup |-> backupName,
            fail |-> fail,
            err |-> CASE fail = "none" -> Nil
                      [] fail = "convert" -> "ConvertError"
                      [] fail = "wait" -> "WaitError"
                      [] fail = "unstructured" -> "ConvertError"
                      [] fail = "clients" -> "ClientError",
            answer |-> Nil, raced |-> FALSE, additionalItems |-> {}]]
    /\ UNCHANGED <<classStore, itemVars, lastCancel, waitVars, dataMoverCase, vsbStore,
                   vsrStore, callers, invocations, overlapped, lastProgress>>

\* Create of the class with AlreadyExists taken for any other error
VSBBackupExecuteCreate_AlreadyExistsFails(e, fault) ==
    /\ classExecs[e].pc = "create"
    /\ LET name == TempVSCName(classExecs[e].backup)
           answer == IF fault THEN "StoreError"
                     ELSE IF name \in DOMAIN classStore THEN "AlreadyExists"
                     ELSE "Created"
       IN  /\ classStore' = IF answer = "Created" THEN Put(classStore, name, TempVSC)
                            ELSE classStore
           /\ classExecs' = [classExecs EXCEPT
                  ![e].pc = "done",
                  ![e].answer = answer,
                  ![e].raced = \E d \in Executors \ {e} :
                                   /\ classExecs[d].pc = "create"
                                   /\ classExecs[d].backup = classExecs[e].backup,
                  ![e].err = IF answer # "Created" THEN "CreateError" ELSE Nil,
                  ![e].additionalItems = IF answer # "Created" THEN {} ELSE {name}]
    /\ UNCHANGED <<itemVars, lastCancel, waitVars, dataMoverCase, vsbStore,
                   vsrStore, callers, invocations, overlapped, lastProgress>>

\* VolumeSnapshotClasses().Create and the return, part_001:86-103: the store
\* answers AlreadyExists when the name is taken, which the action lets pass
VSBBackupExecuteCreate(e, fault) ==
    /\ classExecs[e].pc = "create"
    /\ LET name == TempVSCName(classExecs[e].backup)
           answer == IF fault THEN "StoreError"
                     ELSE IF name \in DOMAIN classStore THEN "AlreadyExists"
                     ELSE "Created"
       IN  /\ classStore' = IF answer = "Created" THEN Put(classStore, name, TempVSC)
                            ELSE classStore
           /\ classExecs' = [classExecs EXCEPT
                  ![e].pc = "done",
                  ![e].answer = answer,
                  ![e].raced = \E d \in Executors \ {e} :
                                   /\ classExecs[d].pc = "create"
                                   /\ classExecs[d].backup = classExecs[e].backup,
                  ![e].err = IF answer = "StoreError" THEN "CreateError" ELSE Nil,
                  ![e].additionalItems = IF answer = "StoreError" THEN {} ELSE {name}]
    /\ UNCHANGED <<itemVars, lastCancel, waitVars, dataMoverCase, vsbStore,
                   vsrStore, callers, invocations, overlapped, lastProgress>>

NextClass ==
    \/ \E e \in Executors, backupName \in BackupNames, fail \in ClassFailures :
           VSBBackupExecuteBegin(e, backupName, fail)
    \/ \E e \in Executors, fault \in BOOLEAN : VSBBackupExecuteCreate(e, fault)

SpecClass == Init /\ [][NextClass]_vars

\* executor e calls Create in this step
ClassCreateCalled(e) == classExecs[e].pc = "create" /\ classExecs'[e].pc = "done"

\* C38: the creation of the temporary snapshot class is idempotent per backup:
\* for any number of sequential or concurrent executions of the VSB backup
\* action under one backup the store holds at most one class named
\* "<backup>-snapclass" (a Create adds the class only when the name is free
\* and never replaces it), an AlreadyExists answer on Create is taken as
\* success, every execution that returns without error returns that class,
\* which is then in the store, as its additional item, and any other Create
\* error fails the execution.
C38_TempClassCreatedOnce ==
    /\ [][\A e \in Executors :
              ClassCreateCalled(e) =>
                  LET name == TempVSCName(classExecs[e].backup)
                  IN  /\ (name \in DOMAIN classStore /\ classExecs'[e].answer # "StoreError") =>
                             /\ classExecs'[e].answer = "AlreadyExists"
                             /\ classExecs'[e].err = Nil
                             /\ classStore' = classStore
                      /\ classStore' # classStore =>
                             /\ name \notin DOMAIN classStore
                             /\ DOMAIN classStore' = DOMAIN classStore \cup {name}
                             /\ \A k \in DOMAIN classStore : classStore'[k] = classStore[k]
                      /\ classExecs'[e].answer = "StoreError" =>
                             /\ classExecs'[e].err = "CreateError"
                             /\ classExecs'[e].additionalItems = {}
                             /\ classStore' = classStore]_vars
    /\ [][(\A e \in Executors : ~ClassCreateCalled(e)) => classStore' = classStore]_vars
    /\ [](\A e \in Executors :
              (classExecs[e].pc = "done" /\ classExecs[e].err = Nil) =>
                  /\ classExecs[e].additionalItems = {TempVSCName(classExecs[e].backup)}
                  /\ TempVSCName(classExecs[e].backup) \in DOMAIN classStore)
    /\ [](DOMAIN classStore \subseteq {TempVSCName(b) : b \in BackupNames})

\* two executions under one backup were at Create together: one created the
\* class, the other was answered AlreadyExists, and both returned the class
C38_Witness ==
    \E e, d \in Executors :
        /\ e # d
        /\ classExecs[e].backup = classExecs[d].backup
        /\ classExecs[e].pc = "done" /\ classExecs[d].pc = "done"
        /\ classExecs[e].answer = "Created" /\ classExecs[e].raced
        /\ classExecs[d].answer = "AlreadyExists"
        /\ classExecs[e].err = Nil /\ classExecs[d].err = Nil
        /\ classExecs[e].additionalItems = classExecs[d].additionalItems
        /\ Cardinality(DOMAIN classStore) = 1


\* ================================== the listed wait (C39)
\* the items that can follow the first one in vsrList.Items
OtherItems == [Phase : {"", PhaseCompleted, PhaseFailed}, SnapshotHandle : {"", "handle"}]

\* what the List of the wait returns: nothing, one VSR, or two
ListedStatuses ==
    {NotWaited} \cup
    {[o EXCEPT !.Others = r] :
         o \in WaitedStatuses("vsrList") \ {NotWaited},
         r \in {<<>>} \cup {<<x>> : x \in OtherItems}}

NextList ==
    \/ /\ wait.pc = "idle"
       /\ \E clientOK \in BOOLEAN, obj \in ListedStatuses : WaitBegin("vsrList", clientOK, obj)
    \/ \E fault \in WaitFaults : WaitPoll(fault)
    \/ WaitSleep
    \/ WaitReturn
    \/ /\ wait.pc \in {"poll", "sleep"}
       /\ \E obj \in ListedStatuses : ControllerSet(obj)

SpecList == InitWait /\ [][NextList]_vars /\ FairnessWait

\* a poll of the listed wait whose List call succeeds
ListPolled ==
    /\ PollStep
    /\ wait.kind = "vsrList"
    /\ wait'.lastFault = "none"

\* no listed VSR has a snapshot handle
NoHandleListed(obj) ==
    /\ obj.exists => obj.SnapshotHandle = ""
    /\ \A i \in DOMAIN obj.Others : obj.Others[i].SnapshotHandle = ""

\* C39: the wait for the initial status of a VolumeSnapshotRestore succeeds
\* at once when the lookup by restore name and PVC name lists no request, and
\* when several requests are listed its answer is decided by the first of
\* them alone, whatever the others hold; so it reports success also when no
\* request has a snapshot handle.
C39_ListedWaitLooksAtFirstOnly ==
    [][ListPolled =>
        /\ ~waited.exists => (wait'.pc = "done" /\ wait'.result = "ok"
                              /\ wait'.elapsed = wait.elapsed)
        /\ waited.exists =>
               wait'.lastOutcome =
                   IF waited.Phase \in {PhaseFailed, "PartiallyFailed"} THEN "TerminalFailure"
                   ELSE IF waited.SnapshotHandle = "" \/ waited.Phase = "" THEN "wait"
                   ELSE "ready"]_vars

\* the wait returned success on its first poll, at time 0, for an empty list
C39_Witness ==
    /\ wait.kind = "vsrList"
    /\ wait.pc = "done"
    /\ wait.result = "ok"
    /\ wait.polls = 1
    /\ wait.elapsed = 0
    /\ ~waited.exists
    /\ NoHandleListed(waited)


\* ================================== data-mover mode off (C40)
\* C40: the operating-mode flag is fixed for the life of the process, and
\* when data-mover mode is off backup Execute on a VolumeSnapshotContent
\* creates nothing in the store, performs no wait, and returns the input item
\* with an empty operation handle and no items to update, whatever the
\* environment would have failed on.  (An item that cannot be converted to a
\* VolumeSnapshotContent is answered with the conversion error.)
C40_ModeOffIsPassThrough ==
    /\ [][dataMoverCase' = dataMoverCase]_vars
    /\ [](~dataMoverCase =>
            /\ vsbStore = EmptyStore
            /\ \A c \in Callers :
                   callers[c].pc # "idle" =>
                       /\ callers[c].pc = "done"
                       /\ NothingCreated(c)
                       /\ callers[c].result.operationID = <<>>
                       /\ callers[c].result.itemsToUpdate = {}
                       /\ IF callers[c].fail = "convert"
                          THEN callers[c].result.err = "ConvertError"
                          ELSE /\ callers[c].result.err = Nil
                               /\ callers[c].result.item = "input")

\* with the mode off two invocations have returned the item, one of them in
\* an environment where the readiness wait would have failed
C40_Witness ==
    /\ ~dataMoverCase
    /\ invocations = 2
    /\ vsbStore = EmptyStore
    /\ \E c \in Callers :
           /\ callers[c].pc = "done"
           /\ callers[c].fail = "wait"
           /\ callers[c].vsc.BackupLabel = callers[c].backup.Name
           /\ callers[c].result.err = Nil
           /\ callers[c].result.item = "input"
           /\ callers[c].result.operationID = <<>>

====
